---- MODULE Spec2Model ----
\* PXE / iPXE boot-configuration engine of ironic (ironic/common/pxe_utils.py)
\* modelled over an explicit filesystem: directories, regular files and
\* relative symbolic links.
\*
\* A path is a sequence of components, a component is a sequence of string
\* tokens (so that "01-" + "aa-bb" and mac + ".conf" are real concatenations).
EXTENDS Integers, Sequences, FiniteSets, TLC

VARIABLES fs, dhcp_provider, last, nops, cache, call, bmc, nodes

vars == <<fs, dhcp_provider, last, nops, cache, call, bmc, nodes>>

\* ---------------------------------------------------------------- bounds
\* Number of operations performed in one behaviour.
MaxOps == 3
\* Largest number of filesystem steps after which a handler may be killed.
MaxCrashSteps == 7
\* Number of operations in a behaviour with a killed handler or an OS error.
MaxFaultOps == 2
\* octets of the MAC addresses the path functions are called with
MacOctets == 2
\* filesystem steps after which a run of prepare_instance_pxe_config may be killed
MaxLifecycleSteps == 11

\* ---------------------------------------------------------- configuration
tftp_root == << <<"tftpboot">> >>
http_root == << <<"httpboot">> >>
PXE_CFG_DIR_NAME == <<"pxelinux.cfg">>
dir_permission == "0o755"
DhcpProviders == {"none", "neutron"}
ACTIVE == "active"
UNRESCUING == "unrescuing"
DEPLOYING == "deploying"
DEPLOYWAIT == "wait call-back"
ProvisionStates == {ACTIVE, UNRESCUING, DEPLOYING, DEPLOYWAIT}
DHCP_TFTP_SERVER_NAME == "66"
DHCP_BOOTFILE_NAME == "67"
DHCPV6_BOOTFILE_NAME == "59"
DHCP_TFTP_SERVER_ADDRESS == "150"
DHCP_IPXE_ENCAP_OPTS == "175"
DHCP_TFTP_PATH_PREFIX == "210"
\* address literals an operator may configure; the second set is IPv6
IPv4Literals == {"192.0.2.1"}
IPv6Literals == {"fd00::1", "fd00::2"}
\* CONF as the handlers of the deployment read it
CONF ==
    [dhcp |-> [dhcp_provider |-> dhcp_provider],
     pxe |-> [ip_version |-> 4, tftp_server |-> "192.0.2.1",
              tftp_root |-> <<"/tftpboot">>,
              ipxe_boot_script |-> <<"$pybasedir", "/", "boot.ipxe">>],
     deploy |-> [http_url |-> "http://192.0.2.1:8080"],
     my_ipv6 |-> "None"]

\* ------------------------------------------------------------ sample data
Nodes == {"n1", "n2"}
\* the node whose handlers run in the single-node specifications
Deployed == {"n1"}
BootModes == {"bios", "uefi"}
IpAddrs == {"10.0.0.5"}
\* task.ports of each node: port.address and port.extra.get('client-id')
PortsOf(uuid) ==
    IF uuid = "n1"
    THEN << [address |-> <<"aa", ":", "01">>, client_id |-> FALSE] >>
    ELSE << [address |-> <<"aa", ":", "02">>, client_id |-> TRUE] >>
\* what the DHCP provider's get_ip_addresses may answer for one call
DhcpAnswers ==
    {[kind |-> "raise", ips |-> <<>>], [kind |-> "None", ips |-> <<>>]}
    \cup {[kind |-> "list", ips |-> <<>>]}
    \cup {[kind |-> "list", ips |-> <<ip>>] : ip \in IpAddrs}
NoAnswer == [kind |-> "unused", ips |-> <<>>]
\* what the DHCP service may do with a request: accept it, or refuse the
\* options of one IP version
DhcpVerdicts == {"ok", "refuse4", "refuse6"}

\* ------------------------------------------------------------ os.path
DotDot == <<"..">>

Min(a, b) == IF a < b THEN a ELSE b

os_path_join(dir, name) == Append(dir, name)

os_path_dirname(path) == SubSeq(path, 1, Len(path) - 1)

IsPrefix(a, b) == Len(a) <= Len(b) /\ SubSeq(b, 1, Len(a)) = a

CommonLen(a, b) ==
    CHOOSE i \in 0..Min(Len(a), Len(b)) :
        /\ \A j \in 1..i : a[j] = b[j]
        /\ (i = Min(Len(a), Len(b)) \/ a[i + 1] # b[i + 1])

os_path_relpath(path, start) ==
    LET i == CommonLen(path, start)
    IN  [j \in 1..(Len(start) - i) |-> DotDot] \o SubSeq(path, i + 1, Len(path))

RECURSIVE normpath_from(_, _)
normpath_from(acc, rest) ==
    IF rest = <<>> THEN acc
    ELSE IF Head(rest) = DotDot /\ acc # <<>>
         THEN normpath_from(os_path_dirname(acc), Tail(rest))
         ELSE normpath_from(Append(acc, Head(rest)), Tail(rest))

\* the path a relative symbolic link at link_path names
LinkDestination(link_path, target) ==
    normpath_from(os_path_dirname(link_path), target)

\* ------------------------------------------------------------ filesystem
\* fs.dirs  : directory path -> permission
\* fs.files : regular file path -> content (a sequence of strings)
\* fs.links : symbolic link path -> relative target path
Exists(f, p) == p \in DOMAIN f.dirs \/ p \in DOMAIN f.files \/ p \in DOMAIN f.links

os_path_isdir(f, p) == p \in DOMAIN f.dirs

os_path_isfile(f, p) ==
    \/ p \in DOMAIN f.files
    \/ p \in DOMAIN f.links /\ LinkDestination(p, f.links[p]) \in DOMAIN f.files

Remove(fn, p) == [q \in DOMAIN fn \ {p} |-> fn[q]]

Put(fn, p, v) == [q \in DOMAIN fn \cup {p} |-> IF q = p THEN v ELSE fn[q]]

\* ----------------------------------- execution state of a running handler
\* st.fs     filesystem so far
\* st.left   filesystem steps the process may still take before it is killed
\*           (-1: it is not killed)
\* st.fault  a filesystem operation the OS refuses with an OSError other than
\*           ENOENT / EEXIST: [op, path]
\* st.raised exception in flight ("none" when running normally)
\* st.calls  collaborators and sub-steps invoked so far, in order
\* st.pushes option lists handed to the DHCP service so far, with its verdict
NoFault == [op |-> "none", path |-> <<>>]

Start(f, left, fault) ==
    [fs |-> f, left |-> left, fault |-> fault, raised |-> "none", calls |-> <<>>,
     pushes |-> <<>>]

Running(st) == st.raised = "none"

Raise(st, exc) == IF Running(st) THEN [st EXCEPT !.raised = exc] ELSE st

Call(st, name) == IF Running(st) THEN [st EXCEPT !.calls = Append(@, name)] ELSE st

\* one filesystem mutation; the process dies instead when its steps are used up
FsStep(st, newfs) ==
    IF ~Running(st) THEN st
    ELSE IF st.left = 0 THEN [st EXCEPT !.raised = "crash"]
    ELSE [st EXCEPT !.fs = newfs, !.left = IF @ < 0 THEN @ ELSE @ - 1]

Faulty(st, op, p) == st.fault = [op |-> op, path |-> p]

\* ------------------------------------------ filesystem helper libraries
\* fileutils.ensure_tree: os.makedirs that tolerates an existing directory
ensure_tree(st, dir) ==
    LET missing == {SubSeq(dir, 1, k) : k \in 1..Len(dir)} \ DOMAIN st.fs.dirs
    IN  FsStep(st, [st.fs EXCEPT !.dirs =
                       [q \in DOMAIN @ \cup missing |->
                           IF q \in missing THEN "default" ELSE @[q]]])

os_chmod(st, dir, mode) ==
    FsStep(st, [st.fs EXCEPT !.dirs = Put(@, dir, mode)])

\* ironic_lib.utils.unlink_without_raise: os.unlink, every OSError swallowed
unlink_without_raise(st, p) ==
    IF Faulty(st, "unlink", p) \/ p \notin (DOMAIN st.fs.files \cup DOMAIN st.fs.links)
    THEN FsStep(st, st.fs)
    ELSE FsStep(st, [st.fs EXCEPT !.files = IF p \in DOMAIN @ THEN Remove(@, p) ELSE @,
                                  !.links = IF p \in DOMAIN @ THEN Remove(@, p) ELSE @])

\* utils.create_link_without_raise: os.symlink, every OSError swallowed
create_link_without_raise(st, source, link) ==
    IF \/ Faulty(st, "symlink", link)
       \/ Exists(st.fs, link)
       \/ ~os_path_isdir(st.fs, os_path_dirname(link))
    THEN FsStep(st, st.fs)
    ELSE FsStep(st, [st.fs EXCEPT !.links = Put(@, link, source)])

\* utils.rmtree_without_raise: shutil.rmtree of a directory, OSError swallowed
rmtree_without_raise(st, path) ==
    IF ~os_path_isdir(st.fs, path) \/ Faulty(st, "rmtree", path)
    THEN FsStep(st, st.fs)
    ELSE FsStep(st,
           [dirs  |-> [q \in {d \in DOMAIN st.fs.dirs : ~IsPrefix(path, d)} |-> st.fs.dirs[q]],
            files |-> [q \in {d \in DOMAIN st.fs.files : ~IsPrefix(path, d)} |-> st.fs.files[q]],
            links |-> [q \in {d \in DOMAIN st.fs.links : ~IsPrefix(path, d)} |-> st.fs.links[q]]])

\* utils.write_to_file: the whole content appears at path, or open() fails
write_to_file(st, path, contents) ==
    IF ~Running(st) THEN st
    ELSE IF ~os_path_isdir(st.fs, os_path_dirname(path))
    THEN Raise(st, "IOError")
    ELSE FsStep(st, [st.fs EXCEPT !.files = Put(@, path, contents)])

\* utils.render_template: the rendered text, as the values it is made of
render_template(template, params) ==
    <<template, params.pxe_options, params.ROOT, params.DISK_IDENTIFIER, "default deploy">>

RootPlaceholders == {"{{ ROOT }}", "(( ROOT ))"}
DiskPlaceholders == {"{{ DISK_IDENTIFIER }}", "(( DISK_IDENTIFIER ))"}

\* the text deploy_utils.switch_pxe_config leaves in the file
switched_text(text, root_uuid_or_disk_id, is_whole_disk_image, trusted_boot, iscsi_boot, ramdisk_boot) ==
    LET boot_line == IF iscsi_boot THEN "default boot_iscsi"
                     ELSE IF ramdisk_boot THEN "default boot_ramdisk"
                     ELSE IF is_whole_disk_image THEN "default boot_whole_disk"
                     ELSE IF trusted_boot THEN "default trusted_boot"
                     ELSE "default boot_partition"
        t1 == IF ramdisk_boot THEN text
              ELSE IF ~is_whole_disk_image
              THEN IF text[3] \in RootPlaceholders
                   THEN [text EXCEPT ![3] = root_uuid_or_disk_id] ELSE text
              ELSE IF text[4] \in DiskPlaceholders
                   THEN [text EXCEPT ![4] = root_uuid_or_disk_id] ELSE text
    IN  [t1 EXCEPT ![5] = boot_line]

\* deploy_utils.switch_pxe_config: edits the file at path in place
switch_pxe_config(st, path, root_uuid_or_disk_id, is_whole_disk_image, trusted_boot, iscsi_boot, ramdisk_boot) ==
    LET s1 == Call(st, "switch_pxe_config")
    IN  IF ~Running(s1) THEN s1
        ELSE IF path \notin DOMAIN s1.fs.files THEN Raise(s1, "IOError")
        ELSE FsStep(s1, [s1.fs EXCEPT !.files[path] =
                 switched_text(@, root_uuid_or_disk_id, is_whole_disk_image,
                               trusted_boot, iscsi_boot, ramdisk_boot)])

\* deploy_utils.get_pxe_config_template: the template configured for the node
get_pxe_config_template(node) ==
    IF node.boot_mode = "uefi" THEN "uefi_pxe_config_template" ELSE "pxe_config_template"

\* ------------------------------------------------------------ pxe_utils
get_root_dir == tftp_root

get_ipxe_root_dir == http_root

\* variant: os.makedirs without the isdir test, an existing directory is an error
_ensure_config_dirs_exist_makedirs(st, task, ipxe_enabled) ==
    LET root_dir == IF ipxe_enabled THEN get_ipxe_root_dir ELSE get_root_dir
        node_dir == os_path_join(root_dir, <<task.node.uuid>>)
        pxe_dir  == os_path_join(root_dir, PXE_CFG_DIR_NAME)
        one(s, directory) ==
            IF ~Running(s) THEN s
            ELSE IF os_path_isdir(s.fs, directory) THEN Raise(s, "OSError")
            ELSE os_chmod(ensure_tree(s, directory), directory, dir_permission)
    IN  one(one(st, node_dir), pxe_dir)

\* variant: the permission is applied whether or not the directory existed
_ensure_config_dirs_exist_chmod_always(st, task, ipxe_enabled) ==
    LET root_dir == IF ipxe_enabled THEN get_ipxe_root_dir ELSE get_root_dir
        node_dir == os_path_join(root_dir, <<task.node.uuid>>)
        pxe_dir  == os_path_join(root_dir, PXE_CFG_DIR_NAME)
        one(s, directory) ==
            IF ~Running(s) THEN s
            ELSE IF ~os_path_isdir(s.fs, directory)
            THEN os_chmod(ensure_tree(s, directory), directory, dir_permission)
            ELSE os_chmod(s, directory, dir_permission)
    IN  one(one(st, node_dir), pxe_dir)

_ensure_config_dirs_exist(st, task, ipxe_enabled) ==
    LET root_dir == IF ipxe_enabled THEN get_ipxe_root_dir ELSE get_root_dir
        node_dir == os_path_join(root_dir, <<task.node.uuid>>)
        pxe_dir  == os_path_join(root_dir, PXE_CFG_DIR_NAME)
        one(s, directory) ==
            IF Running(s) /\ ~os_path_isdir(s.fs, directory)
            THEN os_chmod(ensure_tree(s, directory), directory, dir_permission)
            ELSE s
    IN  one(one(st, node_dir), pxe_dir)

str_replace(s, old, new) == [i \in 1..Len(s) |-> IF s[i] = old THEN new ELSE s[i]]

lower_token(t) ==
    CASE t = "AA" -> "aa" [] t = "BB" -> "bb" [] t = "A" -> "a" [] OTHER -> t

str_lower(s) == [i \in 1..Len(s) |-> lower_token(s[i])]

_get_pxe_grub_mac_path(mac, ipxe_enabled) ==
    LET root_dir == IF ipxe_enabled THEN get_ipxe_root_dir ELSE get_root_dir
    IN  os_path_join(root_dir, mac \o <<".conf">>)

\* variant: the file name is made of the first octet only
_get_pxe_mac_path_first_octet(mac, delimiter, client_id, ipxe_enabled) ==
    LET mac_file_name == SubSeq(str_lower(str_replace(mac, ":", delimiter)), 1, 2)
    IN  IF ~ipxe_enabled
        THEN LET hw_type == IF client_id THEN "20-" ELSE "01-"
             IN  os_path_join(os_path_join(get_root_dir, PXE_CFG_DIR_NAME),
                              <<hw_type>> \o mac_file_name)
        ELSE os_path_join(os_path_join(get_ipxe_root_dir, PXE_CFG_DIR_NAME),
                          mac_file_name)

\* variant: the file name carries no hardware-type prefix
_get_pxe_mac_path_no_hw_type(mac, delimiter, client_id, ipxe_enabled) ==
    LET mac_file_name == str_lower(str_replace(mac, ":", delimiter))
    IN  IF ~ipxe_enabled
        THEN os_path_join(os_path_join(get_root_dir, PXE_CFG_DIR_NAME), mac_file_name)
        ELSE os_path_join(os_path_join(get_ipxe_root_dir, PXE_CFG_DIR_NAME),
                          mac_file_name)

_get_pxe_mac_path(mac, delimiter, client_id, ipxe_enabled) ==
    LET mac_file_name == str_lower(str_replace(mac, ":", delimiter))
    IN  IF ~ipxe_enabled
        THEN LET hw_type == IF client_id THEN "20-" ELSE "01-"
             IN  os_path_join(os_path_join(get_root_dir, PXE_CFG_DIR_NAME),
                              <<hw_type>> \o mac_file_name)
        ELSE os_path_join(os_path_join(get_ipxe_root_dir, PXE_CFG_DIR_NAME),
                          mac_file_name)

_get_pxe_ip_address_path(ip_address) ==
    os_path_join(tftp_root, <<ip_address, ".conf">>)

\* variant: one config file per root, whatever the node
get_pxe_config_file_path_shared(node_uuid, ipxe_enabled) ==
    IF ipxe_enabled
    THEN os_path_join(get_ipxe_root_dir, <<"config">>)
    ELSE os_path_join(get_root_dir, <<"config">>)

get_pxe_config_file_path(node_uuid, ipxe_enabled) ==
    IF ipxe_enabled
    THEN os_path_join(os_path_join(get_ipxe_root_dir, <<node_uuid>>), <<"config">>)
    ELSE os_path_join(os_path_join(get_root_dir, <<node_uuid>>), <<"config">>)

get_kernel_ramdisk_info(node_uuid, ipxe_enabled) ==
    LET root_dir == IF ipxe_enabled THEN get_ipxe_root_dir ELSE get_root_dir
    IN  << [href |-> "deploy_kernel_href",
            path |-> os_path_join(os_path_join(root_dir, <<node_uuid>>), <<"deploy_kernel">>)],
           [href |-> "deploy_ramdisk_href",
            path |-> os_path_join(os_path_join(root_dir, <<node_uuid>>), <<"deploy_ramdisk">>)] >>

\* variant: os.symlink called directly, its OSError reaches the caller
create_link_raising(st, pxe_config_file_path, mac_path) ==
    LET relative_source_path ==
            os_path_relpath(pxe_config_file_path, os_path_dirname(mac_path))
        s1 == unlink_without_raise(st, mac_path)
    IN  IF Running(s1) /\ Faulty(s1, "symlink", mac_path)
        THEN Raise(s1, "OSError")
        ELSE create_link_without_raise(s1, relative_source_path, mac_path)

\* create_link of _link_mac_pxe_configs
create_link(st, pxe_config_file_path, mac_path) ==
    LET relative_source_path ==
            os_path_relpath(pxe_config_file_path, os_path_dirname(mac_path))
    IN  create_link_without_raise(unlink_without_raise(st, mac_path),
                                  relative_source_path, mac_path)

RECURSIVE link_ports(_, _, _, _)
link_ports(st, pxe_config_file_path, ports, ipxe_enabled) ==
    IF ports = <<>> THEN st
    ELSE LET port == Head(ports)
             s1 == create_link(st, pxe_config_file_path,
                               _get_pxe_mac_path(port.address, "-", port.client_id,
                                                 ipxe_enabled))
             s2 == create_link(s1, pxe_config_file_path,
                               _get_pxe_grub_mac_path(port.address, ipxe_enabled))
         IN  link_ports(s2, pxe_config_file_path, Tail(ports), ipxe_enabled)

_link_mac_pxe_configs(st, task, ipxe_enabled) ==
    link_ports(st, get_pxe_config_file_path(task.node.uuid, ipxe_enabled),
               task.ports, ipxe_enabled)

RECURSIVE link_ips(_, _, _)
link_ips(st, pxe_config_file_path, ip_addrs) ==
    IF ip_addrs = <<>> THEN st
    ELSE LET ip_address_path == _get_pxe_ip_address_path(Head(ip_addrs))
             relative_source_path ==
                 os_path_relpath(pxe_config_file_path, os_path_dirname(ip_address_path))
             s1 == create_link_without_raise(unlink_without_raise(st, ip_address_path),
                                             relative_source_path, ip_address_path)
         IN  link_ips(s1, pxe_config_file_path, Tail(ip_addrs))

\* api.get_ip_addresses(task): the answer of the DHCP provider for this call
get_ip_addresses(st, task) ==
    LET s1 == Call(st, "get_ip_addresses")
    IN  IF task.dhcp.kind = "raise" THEN Raise(s1, "FailedToGetIPAddressOnPort") ELSE s1

_link_ip_address_pxe_configs(st, task, ipxe_enabled) ==
    LET pxe_config_file_path == get_pxe_config_file_path(task.node.uuid, ipxe_enabled)
        s1 == get_ip_addresses(st, task)
        ip_addrs == IF task.dhcp.kind = "list" THEN task.dhcp.ips ELSE <<>>
    IN  link_ips(s1, pxe_config_file_path, ip_addrs)

\* variant: FailedToGetIPAddressOnPort is re-raised whatever the DHCP provider
create_pxe_config_always_reraise(st, task, pxe_options, template, ipxe_enabled) ==
    LET s0 == Call(st, "create_pxe_config")
        s1 == _ensure_config_dirs_exist(s0, task, ipxe_enabled)
        pxe_config_file_path == get_pxe_config_file_path(task.node.uuid, ipxe_enabled)
        uefi_with_grub == task.node.boot_mode = "uefi" /\ ~ipxe_enabled
        params == [pxe_options |-> pxe_options,
                   ROOT |-> IF uefi_with_grub THEN "(( ROOT ))" ELSE "{{ ROOT }}",
                   DISK_IDENTIFIER |-> IF uefi_with_grub THEN "(( DISK_IDENTIFIER ))"
                                       ELSE "{{ DISK_IDENTIFIER }}"]
        s2 == write_to_file(Call(s1, "render_template"), pxe_config_file_path,
                            render_template(template, params))
        s3 == _link_mac_pxe_configs(s2, task, ipxe_enabled)
    IN  IF ~uefi_with_grub THEN s3
        ELSE _link_ip_address_pxe_configs(s3, task, ipxe_enabled)

\* variant: IP aliases are linked in UEFI mode with or without iPXE
create_pxe_config_uefi_any(st, task, pxe_options, template, ipxe_enabled) ==
    LET s0 == Call(st, "create_pxe_config")
        s1 == _ensure_config_dirs_exist(s0, task, ipxe_enabled)
        pxe_config_file_path == get_pxe_config_file_path(task.node.uuid, ipxe_enabled)
        is_uefi_boot_mode == task.node.boot_mode = "uefi"
        uefi_with_grub == is_uefi_boot_mode /\ ~ipxe_enabled
        params == [pxe_options |-> pxe_options,
                   ROOT |-> IF uefi_with_grub THEN "(( ROOT ))" ELSE "{{ ROOT }}",
                   DISK_IDENTIFIER |-> IF uefi_with_grub THEN "(( DISK_IDENTIFIER ))"
                                       ELSE "{{ DISK_IDENTIFIER }}"]
        pxe_config == render_template(template, params)
        s2 == write_to_file(Call(s1, "render_template"), pxe_config_file_path, pxe_config)
        s3 == _link_mac_pxe_configs(s2, task, ipxe_enabled)
        s4 == _link_ip_address_pxe_configs(s3, task, ipxe_enabled)
    IN  IF ~is_uefi_boot_mode THEN s3
        ELSE IF s4.raised = "FailedToGetIPAddressOnPort" /\ dhcp_provider = "none"
        THEN [s4 EXCEPT !.raised = "none"]
        ELSE s4

\* variant: a failed address lookup undoes what the call wrote
create_pxe_config_rolls_back(st, task, pxe_options, template, ipxe_enabled) ==
    LET s0 == Call(st, "create_pxe_config")
        s1 == _ensure_config_dirs_exist(s0, task, ipxe_enabled)
        pxe_config_file_path == get_pxe_config_file_path(task.node.uuid, ipxe_enabled)
        is_uefi_boot_mode == task.node.boot_mode = "uefi"
        uefi_with_grub == is_uefi_boot_mode /\ ~ipxe_enabled
        params == [pxe_options |-> pxe_options,
                   ROOT |-> IF uefi_with_grub THEN "(( ROOT ))" ELSE "{{ ROOT }}",
                   DISK_IDENTIFIER |-> IF uefi_with_grub THEN "(( DISK_IDENTIFIER ))"
                                       ELSE "{{ DISK_IDENTIFIER }}"]
        pxe_config == render_template(template, params)
        s2 == write_to_file(Call(s1, "render_template"), pxe_config_file_path, pxe_config)
        s3 == _link_mac_pxe_configs(s2, task, ipxe_enabled)
        s4 == _link_ip_address_pxe_configs(s3, task, ipxe_enabled)
    IN  IF ~uefi_with_grub THEN s3
        ELSE IF s4.raised = "FailedToGetIPAddressOnPort" /\ dhcp_provider = "none"
        THEN [s4 EXCEPT !.raised = "none"]
        ELSE IF s4.raised = "FailedToGetIPAddressOnPort"
        THEN [s4 EXCEPT !.fs = st.fs]
        ELSE s4

\* variant: the parenthesis form is chosen for UEFI with or without iPXE
create_pxe_config_parens_for_uefi(st, task, pxe_options, template, ipxe_enabled) ==
    LET s0 == Call(st, "create_pxe_config")
        s1 == _ensure_config_dirs_exist(s0, task, ipxe_enabled)
        pxe_config_file_path == get_pxe_config_file_path(task.node.uuid, ipxe_enabled)
        is_uefi_boot_mode == task.node.boot_mode = "uefi"
        uefi_with_grub == is_uefi_boot_mode /\ ~ipxe_enabled
        params == [pxe_options |-> pxe_options,
                   ROOT |-> IF is_uefi_boot_mode THEN "(( ROOT ))" ELSE "{{ ROOT }}",
                   DISK_IDENTIFIER |-> IF is_uefi_boot_mode THEN "(( DISK_IDENTIFIER ))"
                                       ELSE "{{ DISK_IDENTIFIER }}"]
        pxe_config == render_template(template, params)
        s2 == write_to_file(Call(s1, "render_template"), pxe_config_file_path, pxe_config)
        s3 == _link_mac_pxe_configs(s2, task, ipxe_enabled)
        s4 == _link_ip_address_pxe_configs(s3, task, ipxe_enabled)
    IN  IF ~uefi_with_grub THEN s3
        ELSE IF s4.raised = "FailedToGetIPAddressOnPort" /\ dhcp_provider = "none"
        THEN [s4 EXCEPT !.raised = "none"]
        ELSE s4

create_pxe_config(st, task, pxe_options, template, ipxe_enabled) ==
    LET s0 == Call(st, "create_pxe_config")
        s1 == _ensure_config_dirs_exist(s0, task, ipxe_enabled)
        pxe_config_file_path == get_pxe_config_file_path(task.node.uuid, ipxe_enabled)
        is_uefi_boot_mode == task.node.boot_mode = "uefi"
        uefi_with_grub == is_uefi_boot_mode /\ ~ipxe_enabled
        params == [pxe_options |-> pxe_options,
                   ROOT |-> IF uefi_with_grub THEN "(( ROOT ))" ELSE "{{ ROOT }}",
                   DISK_IDENTIFIER |-> IF uefi_with_grub THEN "(( DISK_IDENTIFIER ))"
                                       ELSE "{{ DISK_IDENTIFIER }}"]
        pxe_config == render_template(template, params)
        s2 == write_to_file(Call(s1, "render_template"), pxe_config_file_path, pxe_config)
        s3 == _link_mac_pxe_configs(s2, task, ipxe_enabled)
        s4 == _link_ip_address_pxe_configs(s3, task, ipxe_enabled)
    IN  IF ~uefi_with_grub THEN s3
        ELSE IF s4.raised = "FailedToGetIPAddressOnPort" /\ dhcp_provider = "none"
        THEN [s4 EXCEPT !.raised = "none"]
        ELSE s4

RECURSIVE unlink_ips(_, _)
unlink_ips(st, ip_addresses) ==
    IF ip_addresses = <<>> THEN st
    ELSE unlink_ips(unlink_without_raise(st, _get_pxe_ip_address_path(Head(ip_addresses))),
                    Tail(ip_addresses))

RECURSIVE unlink_ports(_, _, _)
unlink_ports(st, ports, ipxe_enabled) ==
    IF ports = <<>> THEN st
    ELSE LET port == Head(ports)
             s1 == unlink_without_raise(st,
                       _get_pxe_mac_path(port.address, "-", port.client_id, ipxe_enabled))
             s2 == unlink_without_raise(s1,
                       _get_pxe_grub_mac_path(port.address, ipxe_enabled))
         IN  unlink_ports(s2, Tail(ports), ipxe_enabled)

clean_up_pxe_config(st, task, ipxe_enabled) ==
    LET s0 == Call(st, "clean_up_pxe_config")
        is_uefi_boot_mode == task.node.boot_mode = "uefi"
        s1 == IF is_uefi_boot_mode /\ ~ipxe_enabled
              THEN LET g == get_ip_addresses(s0, task)
                   IN  IF task.dhcp.kind = "None"
                       THEN Raise(g, "TypeError")   \* for ... in None
                       ELSE unlink_ips(g, task.dhcp.ips)
              ELSE s0
        s2 == unlink_ports(s1, task.ports, ipxe_enabled)
    IN  IF ipxe_enabled
        THEN rmtree_without_raise(s2, os_path_join(get_ipxe_root_dir, <<task.node.uuid>>))
        ELSE rmtree_without_raise(s2, os_path_join(get_root_dir, <<task.node.uuid>>))

build_pxe_config_options(task, service, ipxe_enabled) ==
    IF service THEN "instance+extra options" ELSE "deploy+instance+extra options"

\* variant: the config is regenerated whether or not the file exists
build_service_pxe_config_regenerate(st, task, root_uuid_or_disk_id, ramdisk_boot, ipxe_enabled) ==
    LET node == task.node
        pxe_config_path == get_pxe_config_file_path(node.uuid, ipxe_enabled)
        s1 == IF node.provision_state \in {ACTIVE, UNRESCUING, DEPLOYING}
              THEN create_pxe_config(st, task,
                       build_pxe_config_options(task, TRUE, ipxe_enabled),
                       get_pxe_config_template(node), ipxe_enabled)
              ELSE st
    IN  switch_pxe_config(s1, pxe_config_path, root_uuid_or_disk_id,
                          FALSE, FALSE, FALSE, ramdisk_boot)

build_service_pxe_config(st, task, root_uuid_or_disk_id, ramdisk_boot, ipxe_enabled) ==
    LET node == task.node
        pxe_config_path == get_pxe_config_file_path(node.uuid, ipxe_enabled)
        s1 == IF /\ node.provision_state \in {ACTIVE, UNRESCUING, DEPLOYING}
                 /\ ~os_path_isfile(st.fs, pxe_config_path)
              THEN create_pxe_config(st, task,
                       build_pxe_config_options(task, TRUE, ipxe_enabled),
                       get_pxe_config_template(node), ipxe_enabled)
              ELSE st
    IN  switch_pxe_config(s1, pxe_config_path, root_uuid_or_disk_id,
                          FALSE, FALSE, FALSE, ramdisk_boot)

\* deploy_utils.get_pxe_boot_file: the boot loader configured for the boot mode
get_pxe_boot_file(node) ==
    IF node.boot_mode = "uefi" THEN "bootx64.efi" ELSE "pxelinux.0"

\* utils.wrap_ipv6: an IPv6 literal is put in brackets
wrap_ipv6(ip) == IF ip \in IPv6Literals THEN <<"[", ip, "]">> ELSE <<ip>>

_dhcp_option_file_or_url(conf, task, urlboot, ip_version) ==
    LET boot_file == get_pxe_boot_file(task.node)
        host == IF conf.my_ipv6 # "None" /\ ip_version = 6
                THEN wrap_ipv6(conf.my_ipv6)
                ELSE wrap_ipv6(conf.pxe.tftp_server)
    IN  IF ~urlboot THEN <<boot_file>>
        ELSE <<"tftp://">> \o host \o <<"/", boot_file>>

\* os.path.join and os.path.basename on strings written as tokens, "/" being
\* a token of its own
posix_join(a, b) ==
    IF a = <<>> \/ a[Len(a)] = "/" THEN a \o b ELSE a \o <<"/">> \o b

os_path_basename(s) ==
    LET slashes == {i \in 1..Len(s) : s[i] = "/"}
        from == IF slashes = {} THEN 1
                ELSE (CHOOSE i \in slashes : \A j \in slashes : j <= i) + 1
    IN  SubSeq(s, from, Len(s))

\* variant: the root is handed over as configured
get_tftp_path_prefix_as_configured(conf) == conf.pxe.tftp_root

get_tftp_path_prefix(conf) == posix_join(conf.pxe.tftp_root, <<>>)

\* variant: url_boot is taken as the caller gave it, whatever the IP version
dhcp_options_for_instance_url_boot_as_given(conf, task, ipxe_enabled, url_boot_arg, ip_version) ==
    LET use_ip_version == IF ip_version # 0 THEN ip_version ELSE conf.pxe.ip_version
        boot_file_param == IF use_ip_version = 4 THEN DHCP_BOOTFILE_NAME
                           ELSE DHCPV6_BOOTFILE_NAME
        url_boot == url_boot_arg
        boot_file == _dhcp_option_file_or_url(conf, task, url_boot, use_ip_version)
        opt(name, value) == [opt_name |-> name, opt_value |-> value,
                             ip_version |-> use_ip_version]
    IN  IF ipxe_enabled
        THEN << opt(<<"!", DHCP_IPXE_ENCAP_OPTS, ",", boot_file_param>>, boot_file),
                opt(<<boot_file_param>>,
                    <<conf.deploy.http_url, "/">>
                    \o os_path_basename(conf.pxe.ipxe_boot_script)) >>
        ELSE << opt(<<boot_file_param>>, boot_file) >>
             \o (IF ~url_boot
                 THEN << opt(<<DHCP_TFTP_PATH_PREFIX>>, get_tftp_path_prefix(conf)),
                         opt(<<DHCP_TFTP_SERVER_NAME>>, <<conf.pxe.tftp_server>>) >>
                 ELSE <<>>)

\* variant: the TFTP server options are left out in iPXE mode
dhcp_options_for_instance_servers_pxe_only(conf, task, ipxe_enabled, url_boot_arg, ip_version) ==
    LET use_ip_version == IF ip_version # 0 THEN ip_version ELSE conf.pxe.ip_version
        boot_file_param == IF use_ip_version = 4 THEN DHCP_BOOTFILE_NAME
                           ELSE DHCPV6_BOOTFILE_NAME
        url_boot == IF use_ip_version = 4 THEN url_boot_arg ELSE TRUE
        boot_file == _dhcp_option_file_or_url(conf, task, url_boot, use_ip_version)
        opt(name, value) == [opt_name |-> name, opt_value |-> value,
                             ip_version |-> use_ip_version]
    IN  IF ipxe_enabled
        THEN << opt(<<"!", DHCP_IPXE_ENCAP_OPTS, ",", boot_file_param>>, boot_file),
                opt(<<boot_file_param>>,
                    <<conf.deploy.http_url, "/">>
                    \o os_path_basename(conf.pxe.ipxe_boot_script)) >>
        ELSE << opt(<<boot_file_param>>, boot_file) >>
             \o (IF ~url_boot
                 THEN << opt(<<DHCP_TFTP_PATH_PREFIX>>, get_tftp_path_prefix(conf)),
                         opt(<<DHCP_TFTP_SERVER_NAME>>, <<conf.pxe.tftp_server>>),
                         opt(<<DHCP_TFTP_SERVER_ADDRESS>>, <<conf.pxe.tftp_server>>),
                         opt(<<"server-ip-address">>, <<conf.pxe.tftp_server>>) >>
                 ELSE <<>>)

\* variant: one tag, ipxe, for both IP versions
dhcp_options_for_instance_one_tag(conf, task, ipxe_enabled, url_boot_arg, ip_version) ==
    LET use_ip_version == IF ip_version # 0 THEN ip_version ELSE conf.pxe.ip_version
        boot_file_param == IF use_ip_version = 4 THEN DHCP_BOOTFILE_NAME
                           ELSE DHCPV6_BOOTFILE_NAME
        url_boot == IF use_ip_version = 4 THEN url_boot_arg ELSE TRUE
        boot_file == _dhcp_option_file_or_url(conf, task, url_boot, use_ip_version)
        ipxe_script_url == <<conf.deploy.http_url, "/">>
                           \o os_path_basename(conf.pxe.ipxe_boot_script)
        opt(name, value) == [opt_name |-> name, opt_value |-> value,
                             ip_version |-> use_ip_version]
        boot_opts ==
            IF ipxe_enabled
            THEN IF conf.dhcp.dhcp_provider = "neutron"
                 THEN << opt(<<"tag:!ipxe,", boot_file_param>>, boot_file),
                         opt(<<"tag:ipxe,", boot_file_param>>, ipxe_script_url) >>
                 ELSE << opt(<<"!", DHCP_IPXE_ENCAP_OPTS, ",", boot_file_param>>, boot_file),
                         opt(<<boot_file_param>>, ipxe_script_url) >>
            ELSE << opt(<<boot_file_param>>, boot_file) >>
                 \o (IF ~url_boot
                     THEN << opt(<<DHCP_TFTP_PATH_PREFIX>>, get_tftp_path_prefix(conf)) >>
                     ELSE <<>>)
        server_opts ==
            IF ~url_boot
            THEN << opt(<<DHCP_TFTP_SERVER_NAME>>, <<conf.pxe.tftp_server>>),
                    opt(<<DHCP_TFTP_SERVER_ADDRESS>>, <<conf.pxe.tftp_server>>),
                    opt(<<"server-ip-address">>, <<conf.pxe.tftp_server>>) >>
            ELSE <<>>
    IN  boot_opts \o server_opts

\* ip_version 0 stands for None: the version comes from [pxe]ip_version
dhcp_options_for_instance(conf, task, ipxe_enabled, url_boot_arg, ip_version) ==
    LET use_ip_version == IF ip_version # 0 THEN ip_version ELSE conf.pxe.ip_version
        dhcp_provider_name == conf.dhcp.dhcp_provider
        boot_file_param == IF use_ip_version = 4 THEN DHCP_BOOTFILE_NAME
                           ELSE DHCPV6_BOOTFILE_NAME
        url_boot == IF use_ip_version = 4 THEN url_boot_arg ELSE TRUE
        boot_file == _dhcp_option_file_or_url(conf, task, url_boot, use_ip_version)
        script_name == os_path_basename(conf.pxe.ipxe_boot_script)
        ipxe_script_url == <<conf.deploy.http_url, "/">> \o script_name
        opt(name, value) == [opt_name |-> name, opt_value |-> value,
                             ip_version |-> use_ip_version]
        boot_opts ==
            IF ipxe_enabled
            THEN IF dhcp_provider_name = "neutron"
                 THEN IF use_ip_version # 6
                      THEN << opt(<<"tag:!ipxe,", boot_file_param>>, boot_file),
                              opt(<<"tag:ipxe,", boot_file_param>>, ipxe_script_url) >>
                      ELSE << opt(<<"tag:!ipxe6,", boot_file_param>>, boot_file),
                              opt(<<"tag:ipxe6,", boot_file_param>>, ipxe_script_url) >>
                 ELSE << opt(<<"!", DHCP_IPXE_ENCAP_OPTS, ",", boot_file_param>>, boot_file),
                         opt(<<boot_file_param>>, ipxe_script_url) >>
            ELSE << opt(<<boot_file_param>>, boot_file) >>
                 \o (IF ~url_boot
                     THEN << opt(<<DHCP_TFTP_PATH_PREFIX>>, get_tftp_path_prefix(conf)) >>
                     ELSE <<>>)
        server_opts ==
            IF ~url_boot
            THEN << opt(<<DHCP_TFTP_SERVER_NAME>>, <<conf.pxe.tftp_server>>),
                    opt(<<DHCP_TFTP_SERVER_ADDRESS>>, <<conf.pxe.tftp_server>>),
                    opt(<<"server-ip-address">>, <<conf.pxe.tftp_server>>) >>
            ELSE <<>>
    IN  boot_opts \o server_opts

\* the IP versions the options of a list are tagged with
VersionsOf(dhcp_opts) == {dhcp_opts[i].ip_version : i \in 1..Len(dhcp_opts)}

\* provider.update_dhcp(task, dhcp_opts): one request carrying the whole list;
\* the DHCP service refuses the request when it refuses one of its options
update_dhcp(st, task, dhcp_opts) ==
    LET refused == \/ task.dhcp_update = "refuse4" /\ 4 \in VersionsOf(dhcp_opts)
                   \/ task.dhcp_update = "refuse6" /\ 6 \in VersionsOf(dhcp_opts)
        s1 == [Call(st, "update_dhcp") EXCEPT
                  !.pushes = Append(@, [dhcp_opts |-> dhcp_opts, accepted |-> ~refused])]
    IN  IF ~Running(st) THEN st
        ELSE IF refused THEN Raise(s1, "FailedToUpdateDHCPOptOnPort") ELSE s1

\* variant: one request per IP version, a refused request being skipped
prepare_instance_pxe_config_per_version(st, task, iscsi_boot, ramdisk_boot, ipxe_enabled) ==
    LET node == task.node
        p4 == update_dhcp(st, task, dhcp_options_for_instance(CONF, task, ipxe_enabled, FALSE, 4))
        s0 == [p4 EXCEPT !.raised = "none"]
        p6 == update_dhcp(s0, task, dhcp_options_for_instance(CONF, task, ipxe_enabled, FALSE, 6))
        s1 == [p6 EXCEPT !.raised = "none"]
        pxe_config_path == get_pxe_config_file_path(node.uuid, ipxe_enabled)
        s2 == IF Running(s1) /\ ~os_path_isfile(s1.fs, pxe_config_path)
              THEN create_pxe_config(s1, task,
                       build_pxe_config_options(task, ramdisk_boot, ipxe_enabled),
                       get_pxe_config_template(node), ipxe_enabled)
              ELSE s1
    IN  switch_pxe_config(s2, pxe_config_path, "None", FALSE, FALSE,
                          iscsi_boot, ramdisk_boot)

\* variant: the config is rendered without testing whether the file exists
prepare_instance_pxe_config_always_render(st, task, iscsi_boot, ramdisk_boot, ipxe_enabled) ==
    LET node == task.node
        dhcp_opts == dhcp_options_for_instance(CONF, task, ipxe_enabled, FALSE, 4)
                     \o dhcp_options_for_instance(CONF, task, ipxe_enabled, FALSE, 6)
        s1 == update_dhcp(st, task, dhcp_opts)
        pxe_config_path == get_pxe_config_file_path(node.uuid, ipxe_enabled)
        s2 == IF Running(s1)
              THEN create_pxe_config(s1, task,
                       build_pxe_config_options(task, ramdisk_boot, ipxe_enabled),
                       get_pxe_config_template(node), ipxe_enabled)
              ELSE s1
    IN  switch_pxe_config(s2, pxe_config_path, "None", FALSE, FALSE,
                          iscsi_boot, ramdisk_boot)

\* variant: with the config present the aliases are linked again
prepare_instance_pxe_config_relinks(st, task, iscsi_boot, ramdisk_boot, ipxe_enabled) ==
    LET node == task.node
        dhcp_opts == dhcp_options_for_instance(CONF, task, ipxe_enabled, FALSE, 4)
                     \o dhcp_options_for_instance(CONF, task, ipxe_enabled, FALSE, 6)
        s1 == update_dhcp(st, task, dhcp_opts)
        pxe_config_path == get_pxe_config_file_path(node.uuid, ipxe_enabled)
        relinked == LET m == _link_mac_pxe_configs(s1, task, ipxe_enabled)
                        i == _link_ip_address_pxe_configs(m, task, ipxe_enabled)
                    IN  IF node.boot_mode = "uefi" /\ ~ipxe_enabled
                        THEN IF i.raised = "FailedToGetIPAddressOnPort"
                             THEN [i EXCEPT !.raised = "none"] ELSE i
                        ELSE m
        s2 == IF Running(s1) /\ ~os_path_isfile(s1.fs, pxe_config_path)
              THEN create_pxe_config(s1, task,
                       build_pxe_config_options(task, ramdisk_boot, ipxe_enabled),
                       get_pxe_config_template(node), ipxe_enabled)
              ELSE IF Running(s1) THEN relinked
              ELSE s1
    IN  switch_pxe_config(s2, pxe_config_path, "None", FALSE, FALSE,
                          iscsi_boot, ramdisk_boot)

\* variant: the DHCP options are pushed after the config is created
prepare_instance_pxe_config_push_late(st, task, iscsi_boot, ramdisk_boot, ipxe_enabled) ==
    LET node == task.node
        dhcp_opts == dhcp_options_for_instance(CONF, task, ipxe_enabled, FALSE, 4)
                     \o dhcp_options_for_instance(CONF, task, ipxe_enabled, FALSE, 6)
        pxe_config_path == get_pxe_config_file_path(node.uuid, ipxe_enabled)
        s1 == IF ~os_path_isfile(st.fs, pxe_config_path)
              THEN create_pxe_config(st, task,
                       build_pxe_config_options(task, ramdisk_boot, ipxe_enabled),
                       get_pxe_config_template(node), ipxe_enabled)
              ELSE st
        s2 == update_dhcp(s1, task, dhcp_opts)
    IN  switch_pxe_config(s2, pxe_config_path, "None", FALSE, FALSE,
                          iscsi_boot, ramdisk_boot)

prepare_instance_pxe_config(st, task, iscsi_boot, ramdisk_boot, ipxe_enabled) ==
    LET node == task.node
        dhcp_opts == dhcp_options_for_instance(CONF, task, ipxe_enabled, FALSE, 4)
                     \o dhcp_options_for_instance(CONF, task, ipxe_enabled, FALSE, 6)
        s1 == update_dhcp(st, task, dhcp_opts)
        pxe_config_path == get_pxe_config_file_path(node.uuid, ipxe_enabled)
        s2 == IF Running(s1) /\ ~os_path_isfile(s1.fs, pxe_config_path)
              THEN create_pxe_config(s1, task,
                       build_pxe_config_options(task, ramdisk_boot, ipxe_enabled),
                       get_pxe_config_template(node), ipxe_enabled)
              ELSE s1
    IN  switch_pxe_config(s2, pxe_config_path, "None", FALSE, FALSE,
                          iscsi_boot, ramdisk_boot)

\* deploy_utils.fetch_images: every image of pxe_info appears at its path
RECURSIVE fetch_images(_, _)
fetch_images(st, pxe_info) ==
    IF pxe_info = <<>> THEN st
    ELSE LET image == Head(pxe_info)
         IN  fetch_images(FsStep(st, [st.fs EXCEPT !.files =
                                  Put(@, image.path, <<"image", image.href>>)]),
                          Tail(pxe_info))

\* ------------------------------------------------------- image cache
\* TFTPImageCache: one master copy per remote image identity, kept under
\* CONF.pxe.tftp_master_path; every node gets a hard link to it.
\* cache.master     identities whose master copy is on disk
\* cache.lock       who holds the lock of an identity ("free": nobody)
\* cache.downloads  downloads completed so far, per identity
\* cache.fetch      how far the cache_ramdisk_kernel of each node has got
Hrefs == {"deploy_kernel_href", "deploy_ramdisk_href"}

NotFetching == [phase |-> "idle", todo |-> <<>>]

InitCache ==
    [master |-> {}, lock |-> [h \in Hrefs |-> "free"],
     downloads |-> [h \in Hrefs |-> 0], fetch |-> [u \in Nodes |-> NotFetching]]

\* hard links to the master copy of an identity found in node directories
LinkCount(f, href) == Cardinality({q \in DOMAIN f.files : f.files[q] = <<"image", href>>})

\* ImageCache.fetch_image for every image of the list, from lock to unlock:
\* an identity without master copy is downloaded once
fetch_all(c, pxe_info) ==
    LET hrefs == {pxe_info[i].href : i \in 1..Len(pxe_info)}
    IN  [c EXCEPT !.master = @ \cup hrefs,
                  !.downloads = [h \in Hrefs |->
                                    IF h \in hrefs \ c.master THEN @[h] + 1 ELSE @[h]]]

\* variant: the sweep looks at age and size only, not at the link count
ImageCache_clean_up_by_age(c, f, stale) ==
    [c EXCEPT !.master = @ \ stale]

\* ImageCache.clean_up: the sweep reclaims the master copies that are due
\* (older than the TTL, or oldest while the cache is over its size bound) and
\* that no node directory links any more
ImageCache_clean_up(c, f, stale) ==
    [c EXCEPT !.master = @ \ {h \in stale : LinkCount(f, h) = 0}]

cache_ramdisk_kernel(st, task, pxe_info, ipxe_enabled) ==
    LET path == IF ipxe_enabled
                THEN os_path_join(get_ipxe_root_dir, <<task.node.uuid>>)
                ELSE os_path_join(get_root_dir, <<task.node.uuid>>)
    IN  fetch_images(Call(ensure_tree(st, path), "fetch_images"), pxe_info)

RECURSIVE unlink_images(_, _)
unlink_images(st, images_info) ==
    IF images_info = <<>> THEN st
    ELSE unlink_images(unlink_without_raise(st, Head(images_info).path), Tail(images_info))

clean_up_pxe_env(st, task, images_info, ipxe_enabled) ==
    Call(clean_up_pxe_config(unlink_images(st, images_info), task, ipxe_enabled),
         "TFTPImageCache.clean_up")

\* ------------------------------------------- FX700 management interface
FX_OEM_BOOTDEV_NETFN == "0x34"
FX_OEM_BOOTDEV_CMD_SET == "0x2E"
FX_OEM_BOOTDEV_CMD_GET == "0x4F"
\* ironic.common.boot_devices
BootDevices == {"disk", "pxe", "bios", "cdrom", "safe"}

FX_OEM_BOOTDEV_HEXA_MAP == [d \in {"disk", "pxe", "bios"} |->
    CASE d = "disk" -> "0x00" [] d = "pxe" -> "0x02" [] d = "bios" -> "0x80"]

get_supported_boot_devices == DOMAIN FX_OEM_BOOTDEV_HEXA_MAP

SendOutcomes == {"ok", "IPMIFailure"}

\* ipmitool.send_raw(task, raw_cmd): the BMC b runs the command and answers,
\* or ipmitool fails with IPMIFailure and the BMC is as before
send_raw(b, raw_cmd, outcome) ==
    IF outcome = "IPMIFailure" THEN [raised |-> "IPMIFailure", out |-> "", bmc |-> b]
    ELSE IF raw_cmd[3] = FX_OEM_BOOTDEV_CMD_SET
         THEN [raised |-> "none", out |-> "", bmc |-> raw_cmd[5]]
         ELSE [raised |-> "none", out |-> b, bmc |-> b]

\* variant: the warning is logged whatever persistent is
set_boot_device_always_warns(b, device, persistent, outcome) ==
    IF device \notin get_supported_boot_devices
    THEN [raised |-> "InvalidParameterValue", warnings |-> <<>>, sent |-> <<>>, bmc |-> b]
    ELSE LET raw_cmd == <<FX_OEM_BOOTDEV_NETFN, " ", FX_OEM_BOOTDEV_CMD_SET, " ",
                          FX_OEM_BOOTDEV_HEXA_MAP[device]>>
             r == send_raw(b, raw_cmd, outcome)
         IN  [raised |-> r.raised,
              warnings |-> <<"FX only supports persistent boot device setting">>,
              sent |-> <<raw_cmd>>, bmc |-> r.bmc]

\* FxIPMIManagement.set_boot_device on the BMC b: what it raises, the
\* warnings it logs, the raw commands it hands to ipmitool, the BMC after
set_boot_device(b, device, persistent, outcome) ==
    IF device \notin get_supported_boot_devices
    THEN [raised |-> "InvalidParameterValue", warnings |-> <<>>, sent |-> <<>>, bmc |-> b]
    ELSE LET warnings == IF ~persistent
                         THEN <<"FX only supports persistent boot device setting">>
                         ELSE <<>>
             raw_cmd == <<FX_OEM_BOOTDEV_NETFN, " ", FX_OEM_BOOTDEV_CMD_SET, " ",
                          FX_OEM_BOOTDEV_HEXA_MAP[device]>>
             r == send_raw(b, raw_cmd, outcome)
         IN  [raised |-> r.raised, warnings |-> warnings, sent |-> <<raw_cmd>>,
              bmc |-> r.bmc]

\* variant: a failure of ipmitool is answered as an unknown boot device
get_boot_device_swallows_failure(b, outcome) ==
    LET raw_cmd == <<FX_OEM_BOOTDEV_NETFN, " ", FX_OEM_BOOTDEV_CMD_GET>>
        r == send_raw(b, raw_cmd, outcome)
        known == {k \in DOMAIN FX_OEM_BOOTDEV_HEXA_MAP : FX_OEM_BOOTDEV_HEXA_MAP[k] = r.out}
    IN  [raised |-> "none",
         warnings |-> IF known = {} THEN <<"Invalid boot device hexadecimal value">>
                      ELSE <<>>,
         sent |-> <<raw_cmd>>,
         response |-> [boot_device |-> IF known = {} THEN "None"
                                       ELSE CHOOSE k \in known : TRUE,
                       persistent |-> TRUE]]

\* FxIPMIManagement.get_boot_device
get_boot_device(b, outcome) ==
    LET raw_cmd == <<FX_OEM_BOOTDEV_NETFN, " ", FX_OEM_BOOTDEV_CMD_GET>>
        r == send_raw(b, raw_cmd, outcome)
        known == {k \in DOMAIN FX_OEM_BOOTDEV_HEXA_MAP : FX_OEM_BOOTDEV_HEXA_MAP[k] = r.out}
    IN  IF r.raised # "none"
        THEN [raised |-> "IPMIFailure", warnings |-> <<>>, sent |-> <<raw_cmd>>,
              response |-> "none"]
        ELSE [raised |-> "none",
              warnings |-> IF known = {} THEN <<"Invalid boot device hexadecimal value">>
                           ELSE <<>>,
              sent |-> <<raw_cmd>>,
              response |-> [boot_device |-> IF known = {} THEN "None"
                                            ELSE CHOOSE k \in known : TRUE,
                            persistent |-> TRUE]]

\* ---------------------------------------------------------- node record
\* nodes[uuid]: the node object of the task and what node.save() stored
\*   instance_info           the dict node.instance_info, "None" for no value
\*   is_whole_disk_image     node.driver_internal_info.get('is_whole_disk_image')
\*   boot_option             deploy_utils.get_boot_option(node)
\*   saved                   instance_info as node.save() stored it last
\*   saves                   calls of node.save() so far
NodeRecord(uuid, kernel, ramdisk, is_whole_disk_image, boot_option) ==
    LET i_info == [kernel |-> kernel, ramdisk |-> ramdisk, image_source |-> "glance://image"]
    IN  [uuid |-> uuid, instance_info |-> i_info, is_whole_disk_image |-> is_whole_disk_image,
         boot_option |-> boot_option, saved |-> i_info, saves |-> 0]

InitNodes == [uuid \in Nodes |-> NodeRecord(uuid, "None", "None", FALSE, "netboot")]

\* what GlanceImageService.show answers for the image source: the properties
\* of the image, properties without ramdisk_id, or ImageNotFound
GlanceAnswers == {"properties", "no ramdisk_id", "ImageNotFound"}

\* variant: the identifiers are looked up and saved before the whole-disk
\* and local-boot test
get_instance_image_info_saves_first(node, ipxe_enabled, glance) ==
    LET root_dir == IF ipxe_enabled THEN get_ipxe_root_dir ELSE get_root_dir
        i_info == [node.instance_info EXCEPT !.kernel = "kernel_id", !.ramdisk = "ramdisk_id"]
        written == [node EXCEPT !.instance_info = i_info, !.saved = i_info, !.saves = @ + 1]
    IN  IF node.is_whole_disk_image \/ node.boot_option = "local"
        THEN [raised |-> "none", image_info |-> <<>>, node |-> written]
        ELSE [raised |-> "none",
              image_info |-> << [label |-> "kernel", href |-> i_info.kernel,
                                 path |-> os_path_join(os_path_join(root_dir, <<node.uuid>>),
                                                       <<"kernel">>)],
                                [label |-> "ramdisk", href |-> i_info.ramdisk,
                                 path |-> os_path_join(os_path_join(root_dir, <<node.uuid>>),
                                                       <<"ramdisk">>)] >>,
              node |-> written]

\* get_instance_image_info on the node object: what it raises, the image
\* info it returns (<<>>: the empty dict) and the node object after
get_instance_image_info(node, ipxe_enabled, glance) ==
    LET root_dir == IF ipxe_enabled THEN get_ipxe_root_dir ELSE get_root_dir
        i_info == node.instance_info
        lacking == i_info.kernel = "None" \/ i_info.ramdisk = "None"
        looked_up == [i_info EXCEPT !.kernel = "kernel_id", !.ramdisk = "ramdisk_id"]
        image_info(info) ==
            << [label |-> "kernel", href |-> info.kernel,
                path |-> os_path_join(os_path_join(root_dir, <<node.uuid>>), <<"kernel">>)],
               [label |-> "ramdisk", href |-> info.ramdisk,
                path |-> os_path_join(os_path_join(root_dir, <<node.uuid>>), <<"ramdisk">>)] >>
    IN  IF node.is_whole_disk_image \/ node.boot_option = "local"
        THEN [raised |-> "none", image_info |-> <<>>, node |-> node]
        ELSE IF ~lacking
        THEN [raised |-> "none", image_info |-> image_info(i_info), node |-> node]
        ELSE IF glance = "ImageNotFound"
        THEN [raised |-> "ImageNotFound", image_info |-> <<>>, node |-> node]
        ELSE IF glance = "no ramdisk_id"
        \* i_info['kernel'] is assigned in the dict of the node object, then
        \* iproperties['ramdisk_id'] raises KeyError: nothing is saved
        THEN [raised |-> "KeyError", image_info |-> <<>>,
              node |-> [node EXCEPT !.instance_info.kernel = "kernel_id"]]
        ELSE [raised |-> "none", image_info |-> image_info(looked_up),
              node |-> [node EXCEPT !.instance_info = looked_up, !.saved = looked_up,
                                    !.saves = @ + 1]]

\* ------------------------------------------------------- state machine
\* the task a handler runs with: the node, its ports, and what the DHCP
\* service answers during this call
Task(uuid, boot_mode, provision_state, dhcp, dhcp_update) ==
    [node |-> [uuid |-> uuid, boot_mode |-> boot_mode, provision_state |-> provision_state],
     ports |-> PortsOf(uuid), dhcp |-> dhcp, dhcp_update |-> dhcp_update]

\* get_ip_addresses is consulted only for UEFI without iPXE
AnswersFor(boot_mode, ipxe_enabled) ==
    IF boot_mode = "uefi" /\ ~ipxe_enabled THEN DhcpAnswers ELSE {NoAnswer}

Args(op, uuid, ipxe_enabled, boot_mode, dhcp, extra, left, fault) ==
    [op |-> op, uuid |-> uuid, ipxe_enabled |-> ipxe_enabled, boot_mode |-> boot_mode,
     dhcp |-> dhcp, extra |-> extra, left |-> left, fault |-> fault]

NoArgs == Args("none", "", FALSE, "bios", NoAnswer, "", -1, NoFault)

\* what is remembered of the last handler run: it ran from fs with args and
\* ended as st
Outcome(args, st) ==
    [args |-> args, raised |-> st.raised, calls |-> st.calls, pushes |-> st.pushes,
     repeat |-> (last.args = args /\ last.raised = "none"),
     retry |-> (last.raised = "crash" /\ [last.args EXCEPT !.left = -1] = args),
     had_config |-> os_path_isfile(fs, get_pxe_config_file_path(args.uuid,
                                                                args.ipxe_enabled))]

CreatePxeConfig(uuid, ipxe_enabled, boot_mode, dhcp, pxe_options, left, fault) ==
    /\ nops < MaxOps
    /\ LET st == create_pxe_config(Start(fs, left, fault),
                                   Task(uuid, boot_mode, DEPLOYING, dhcp, "ok"),
                                   pxe_options,
                                   get_pxe_config_template([boot_mode |-> boot_mode]),
                                   ipxe_enabled)
       IN  /\ fs' = st.fs
           /\ last' = Outcome(Args("create_pxe_config", uuid, ipxe_enabled, boot_mode,
                                   dhcp, pxe_options, left, fault), st)
    /\ nops' = nops + 1
    /\ UNCHANGED <<dhcp_provider, cache, call, bmc, nodes>>

PrepareInstancePxeConfig(uuid, ipxe_enabled, boot_mode, dhcp, dhcp_update, left, fault) ==
    /\ nops < MaxOps
    /\ LET st == prepare_instance_pxe_config(Start(fs, left, fault),
                                             Task(uuid, boot_mode, DEPLOYING, dhcp,
                                                  dhcp_update),
                                             FALSE, FALSE, ipxe_enabled)
       IN  /\ fs' = st.fs
           /\ last' = Outcome(Args("prepare_instance_pxe_config", uuid, ipxe_enabled,
                                   boot_mode, dhcp, dhcp_update, left, fault), st)
    /\ nops' = nops + 1
    /\ UNCHANGED <<dhcp_provider, cache, call, bmc, nodes>>

BuildServicePxeConfig(uuid, ipxe_enabled, boot_mode, dhcp, provision_state, left, fault) ==
    /\ nops < MaxOps
    /\ LET st == build_service_pxe_config(Start(fs, left, fault),
                                          Task(uuid, boot_mode, provision_state, dhcp, "ok"),
                                          "root-uuid", FALSE, ipxe_enabled)
       IN  /\ fs' = st.fs
           /\ last' = Outcome(Args("build_service_pxe_config", uuid, ipxe_enabled,
                                   boot_mode, dhcp, provision_state, left, fault), st)
    /\ nops' = nops + 1
    /\ UNCHANGED <<dhcp_provider, cache, call, bmc, nodes>>

CleanUpPxeConfig(uuid, ipxe_enabled, boot_mode, dhcp, left, fault) ==
    /\ nops < MaxOps
    /\ LET st == clean_up_pxe_config(Start(fs, left, fault),
                                     Task(uuid, boot_mode, DEPLOYING, dhcp, "ok"),
                                     ipxe_enabled)
       IN  /\ fs' = st.fs
           /\ last' = Outcome(Args("clean_up_pxe_config", uuid, ipxe_enabled, boot_mode,
                                   dhcp, "", left, fault), st)
    /\ nops' = nops + 1
    /\ UNCHANGED <<dhcp_provider, cache, call, bmc, nodes>>

CleanUpPxeEnv(uuid, ipxe_enabled, boot_mode, dhcp, stale, left, fault) ==
    /\ nops < MaxOps
    /\ LET st == clean_up_pxe_env(Start(fs, left, fault),
                                  Task(uuid, boot_mode, DEPLOYING, dhcp, "ok"),
                                  get_kernel_ramdisk_info(uuid, ipxe_enabled), ipxe_enabled)
       IN  /\ fs' = st.fs
           /\ cache' = IF Running(st) THEN ImageCache_clean_up(cache, st.fs, stale)
                       ELSE cache
           /\ last' = Outcome(Args("clean_up_pxe_env", uuid, ipxe_enabled, boot_mode,
                                   dhcp, stale, left, fault), st)
    /\ nops' = nops + 1
    /\ UNCHANGED <<dhcp_provider, call, bmc, nodes>>

CacheRamdiskKernel(uuid, ipxe_enabled, left, fault) ==
    /\ nops < MaxOps
    /\ LET st == cache_ramdisk_kernel(Start(fs, left, fault),
                                      Task(uuid, "bios", DEPLOYING, NoAnswer, "ok"),
                                      get_kernel_ramdisk_info(uuid, ipxe_enabled),
                                      ipxe_enabled)
       IN  /\ fs' = st.fs
           /\ cache' = IF Running(st)
                       THEN fetch_all(cache, get_kernel_ramdisk_info(uuid, ipxe_enabled))
                       ELSE cache
           /\ last' = Outcome(Args("cache_ramdisk_kernel", uuid, ipxe_enabled, "bios",
                                   NoAnswer, "", left, fault), st)
    /\ nops' = nops + 1
    /\ UNCHANGED <<dhcp_provider, call, bmc, nodes>>

\* no function or driver call has been examined
NoCall == [fn |-> "none"]

Init ==
    /\ fs = [dirs  |-> [q \in {tftp_root, http_root} |-> "operator"],
             files |-> <<>>,
             links |-> <<>>]
    /\ dhcp_provider \in DhcpProviders
    /\ last = [args |-> NoArgs, raised |-> "none", calls |-> <<>>, pushes |-> <<>>,
               repeat |-> FALSE,
               retry |-> FALSE,
               had_config |-> FALSE]
    /\ nops = 0
    /\ cache = InitCache
    /\ call = NoCall
    /\ bmc = "0x00"
    /\ nodes = InitNodes

Next ==
    \/ \E uuid \in Deployed, ipxe_enabled \in BOOLEAN, boot_mode \in BootModes,
          pxe_options \in {"deploy+instance+extra options"} :
          \E dhcp \in AnswersFor(boot_mode, ipxe_enabled) :
             CreatePxeConfig(uuid, ipxe_enabled, boot_mode, dhcp, pxe_options, -1, NoFault)
    \/ \E uuid \in Deployed, ipxe_enabled \in BOOLEAN, boot_mode \in BootModes,
          dhcp_update \in DhcpVerdicts :
          \E dhcp \in AnswersFor(boot_mode, ipxe_enabled) :
             PrepareInstancePxeConfig(uuid, ipxe_enabled, boot_mode, dhcp, dhcp_update,
                                      -1, NoFault)
    \/ \E uuid \in Deployed, ipxe_enabled \in BOOLEAN, boot_mode \in BootModes,
          provision_state \in ProvisionStates :
          \E dhcp \in AnswersFor(boot_mode, ipxe_enabled) :
             BuildServicePxeConfig(uuid, ipxe_enabled, boot_mode, dhcp, provision_state,
                                   -1, NoFault)
    \/ \E uuid \in Deployed, ipxe_enabled \in BOOLEAN, boot_mode \in BootModes :
          \E dhcp \in AnswersFor(boot_mode, ipxe_enabled) :
             CleanUpPxeConfig(uuid, ipxe_enabled, boot_mode, dhcp, -1, NoFault)
    \/ \E uuid \in Deployed, ipxe_enabled \in BOOLEAN, boot_mode \in BootModes :
          \E dhcp \in AnswersFor(boot_mode, ipxe_enabled) :
             CleanUpPxeEnv(uuid, ipxe_enabled, boot_mode, dhcp, {}, -1, NoFault)
    \/ \E uuid \in Deployed, ipxe_enabled \in BOOLEAN :
          CacheRamdiskKernel(uuid, ipxe_enabled, -1, NoFault)

Spec == Init /\ [][Next]_vars

\* --------------------------------------------- killed handlers (crash)
\* The conductor process may die between any two filesystem steps of
\* create_pxe_config / prepare_instance_pxe_config; the operation is then
\* invoked again.
NextCrash ==
    /\ nops < MaxFaultOps
    /\ \/ \E uuid \in Deployed, ipxe_enabled \in BOOLEAN, boot_mode \in BootModes,
             left \in {-1} \cup 0..MaxCrashSteps :
             \E dhcp \in AnswersFor(boot_mode, ipxe_enabled) :
                CreatePxeConfig(uuid, ipxe_enabled, boot_mode, dhcp,
                                "deploy+instance+extra options", left, NoFault)
       \/ \E uuid \in Deployed, ipxe_enabled \in BOOLEAN, boot_mode \in BootModes,
             left \in {-1} \cup 0..MaxCrashSteps :
             \E dhcp \in AnswersFor(boot_mode, ipxe_enabled) :
                PrepareInstancePxeConfig(uuid, ipxe_enabled, boot_mode, dhcp, "ok",
                                         left, NoFault)

SpecCrash == Init /\ [][NextCrash]_vars

\* ------------------------------------------ filesystem errors (OSError)
\* every alias path of a node, under both roots
MacAliasPaths(uuid, ipxe_enabled) ==
    UNION {{_get_pxe_mac_path(PortsOf(uuid)[i].address, "-", PortsOf(uuid)[i].client_id,
                              ipxe_enabled),
            _get_pxe_grub_mac_path(PortsOf(uuid)[i].address, ipxe_enabled)}
           : i \in 1..Len(PortsOf(uuid))}

IpAliasPaths == {_get_pxe_ip_address_path(ip) : ip \in IpAddrs}

\* the OS refuses one operation on one path during the call
FaultsFor(uuid, ipxe_enabled) ==
    {NoFault}
    \cup {[op |-> o, path |-> p] : o \in {"symlink", "unlink"},
                                   p \in MacAliasPaths(uuid, ipxe_enabled) \cup IpAliasPaths}
    \cup {[op |-> "rmtree",
           path |-> os_path_join(IF ipxe_enabled THEN http_root ELSE tftp_root, <<uuid>>)]}

NextFault ==
    /\ nops < MaxFaultOps
    /\ \/ \E uuid \in Deployed, ipxe_enabled \in BOOLEAN, boot_mode \in BootModes :
             \E dhcp \in AnswersFor(boot_mode, ipxe_enabled),
                fault \in FaultsFor(uuid, ipxe_enabled) :
                CreatePxeConfig(uuid, ipxe_enabled, boot_mode, dhcp,
                                "deploy+instance+extra options", -1, fault)
       \/ \E uuid \in Deployed, ipxe_enabled \in BOOLEAN, boot_mode \in BootModes :
             \E dhcp \in AnswersFor(boot_mode, ipxe_enabled),
                fault \in FaultsFor(uuid, ipxe_enabled) :
                CleanUpPxeConfig(uuid, ipxe_enabled, boot_mode, dhcp, -1, fault)
       \/ \E uuid \in Deployed, ipxe_enabled \in BOOLEAN, boot_mode \in BootModes :
             \E dhcp \in AnswersFor(boot_mode, ipxe_enabled),
                fault \in FaultsFor(uuid, ipxe_enabled) :
                CleanUpPxeEnv(uuid, ipxe_enabled, boot_mode, dhcp, {}, -1, fault)

SpecFault == Init /\ [][NextFault]_vars

\* ------------------------------------------------ two nodes in parallel
\* the addresses the DHCP service has leased to the ports of the node
LeasesOf(uuid) == IF uuid = "n1" THEN <<"10.0.0.5", "10.0.0.7">> ELSE <<"10.0.0.6">>

\* what get_ip_addresses would answer for the node during one call; the
\* failing answers matter only where the handler asks (UEFI without iPXE)
AnswersOf(uuid, boot_mode, ipxe_enabled) ==
    IF boot_mode = "uefi" /\ ~ipxe_enabled
    THEN {[kind |-> "raise", ips |-> <<>>], [kind |-> "None", ips |-> <<>>],
          [kind |-> "list", ips |-> <<>>], [kind |-> "list", ips |-> LeasesOf(uuid)]}
    ELSE {[kind |-> "list", ips |-> LeasesOf(uuid)]}

\* Every node runs its operations under its own lock; operations of
\* different nodes follow each other in any order.
NextNodes ==
    /\ nops < MaxFaultOps
    /\ \/ \E uuid \in Nodes, ipxe_enabled \in BOOLEAN, boot_mode \in BootModes :
             \E dhcp \in AnswersOf(uuid, boot_mode, ipxe_enabled) :
                CreatePxeConfig(uuid, ipxe_enabled, boot_mode, dhcp,
                                "deploy+instance+extra options", -1, NoFault)
       \/ \E uuid \in Nodes, ipxe_enabled \in BOOLEAN, boot_mode \in BootModes :
             \E dhcp \in AnswersOf(uuid, boot_mode, ipxe_enabled) :
                PrepareInstancePxeConfig(uuid, ipxe_enabled, boot_mode, dhcp, "ok",
                                         -1, NoFault)
       \/ \E uuid \in Nodes, ipxe_enabled \in BOOLEAN, boot_mode \in BootModes,
             provision_state \in {ACTIVE, DEPLOYWAIT} :
             \E dhcp \in AnswersOf(uuid, boot_mode, ipxe_enabled) :
                BuildServicePxeConfig(uuid, ipxe_enabled, boot_mode, dhcp,
                                      provision_state, -1, NoFault)
       \/ \E uuid \in Nodes, ipxe_enabled \in BOOLEAN, boot_mode \in BootModes :
             \E dhcp \in AnswersOf(uuid, boot_mode, ipxe_enabled) :
                CleanUpPxeConfig(uuid, ipxe_enabled, boot_mode, dhcp, -1, NoFault)

SpecNodes == Init /\ [][NextNodes]_vars

\* the handler run that the operation with arguments a performs on filesystem f
Handler(a, f) ==
    CASE a.op = "create_pxe_config" ->
            create_pxe_config(Start(f, -1, NoFault),
                              Task(a.uuid, a.boot_mode, DEPLOYING, a.dhcp, "ok"),
                              a.extra, get_pxe_config_template([boot_mode |-> a.boot_mode]),
                              a.ipxe_enabled)
      [] a.op = "prepare_instance_pxe_config" ->
            prepare_instance_pxe_config(Start(f, -1, NoFault),
                                        Task(a.uuid, a.boot_mode, DEPLOYING, a.dhcp, a.extra),
                                        FALSE, FALSE, a.ipxe_enabled)
      [] a.op = "build_service_pxe_config" ->
            build_service_pxe_config(Start(f, -1, NoFault),
                                     Task(a.uuid, a.boot_mode, a.extra, a.dhcp, "ok"),
                                     "root-uuid", FALSE, a.ipxe_enabled)
      [] a.op = "clean_up_pxe_config" ->
            clean_up_pxe_config(Start(f, -1, NoFault),
                                Task(a.uuid, a.boot_mode, DEPLOYING, a.dhcp, "ok"),
                                a.ipxe_enabled)

\* create / prepare / switch / clean-up of one node in every mode combination,
\* the DHCP service answering with the node's leases
OpsOf(uuid) ==
    UNION {{Args("create_pxe_config", uuid, ipxe_enabled, boot_mode,
                 [kind |-> "list", ips |-> LeasesOf(uuid)],
                 "deploy+instance+extra options", -1, NoFault),
            Args("prepare_instance_pxe_config", uuid, ipxe_enabled, boot_mode,
                 [kind |-> "list", ips |-> LeasesOf(uuid)], "ok", -1, NoFault),
            Args("build_service_pxe_config", uuid, ipxe_enabled, boot_mode,
                 [kind |-> "list", ips |-> LeasesOf(uuid)], ACTIVE, -1, NoFault),
            Args("clean_up_pxe_config", uuid, ipxe_enabled, boot_mode,
                 [kind |-> "list", ips |-> LeasesOf(uuid)], "", -1, NoFault)}
           : ipxe_enabled \in BOOLEAN, boot_mode \in BootModes}

\* Two nodes whose operations follow each other in any order, the DHCP service
\* holding leases for both.
NextInterleave ==
    /\ nops < MaxFaultOps
    /\ \E uuid \in Nodes : \E a \in OpsOf(uuid) :
          \/ /\ a.op = "create_pxe_config"
             /\ CreatePxeConfig(a.uuid, a.ipxe_enabled, a.boot_mode, a.dhcp, a.extra,
                                a.left, a.fault)
          \/ /\ a.op = "prepare_instance_pxe_config"
             /\ PrepareInstancePxeConfig(a.uuid, a.ipxe_enabled, a.boot_mode, a.dhcp,
                                         a.extra, a.left, a.fault)
          \/ /\ a.op = "build_service_pxe_config"
             /\ BuildServicePxeConfig(a.uuid, a.ipxe_enabled, a.boot_mode, a.dhcp,
                                      a.extra, a.left, a.fault)
          \/ /\ a.op = "clean_up_pxe_config"
             /\ CleanUpPxeConfig(a.uuid, a.ipxe_enabled, a.boot_mode, a.dhcp,
                                 a.left, a.fault)

\* the answers above never fail, so the DHCP provider plays no part
InitInterleave == Init /\ dhcp_provider = "neutron"

SpecInterleave == InitInterleave /\ [][NextInterleave]_vars

\* ------------------------------------- boot-preparation lifecycle of a node
\* prepare_instance_pxe_config of one node, run to its end with the DHCP
\* service accepting or refusing the options (a refusal comes before the
\* first filesystem step), or killed after any number of filesystem steps;
\* clean_up_pxe_config brings the node back.
NextLifecycle ==
    /\ nops < MaxFaultOps
    /\ \/ \E uuid \in Deployed, ipxe_enabled \in BOOLEAN, boot_mode \in BootModes,
             dhcp_update \in DhcpVerdicts :
             \E dhcp \in AnswersFor(boot_mode, ipxe_enabled) :
                PrepareInstancePxeConfig(uuid, ipxe_enabled, boot_mode, dhcp, dhcp_update,
                                         -1, NoFault)
       \/ \E uuid \in Deployed, ipxe_enabled \in BOOLEAN, boot_mode \in BootModes,
             left \in 0..MaxLifecycleSteps :
             \E dhcp \in {d \in AnswersFor(boot_mode, ipxe_enabled) : d.kind # "None"} :
                PrepareInstancePxeConfig(uuid, ipxe_enabled, boot_mode, dhcp, "ok",
                                         left, NoFault)
       \/ \E uuid \in Deployed, ipxe_enabled \in BOOLEAN, boot_mode \in BootModes :
             \E dhcp \in AnswersFor(boot_mode, ipxe_enabled) :
                CleanUpPxeConfig(uuid, ipxe_enabled, boot_mode, dhcp, -1, NoFault)

SpecLifecycle == Init /\ [][NextLifecycle]_vars

\* ------------------------------------------- calls of the pure functions
\* dhcp_options_for_instance called once, with every combination of its
\* arguments and of the configuration options it reads.
TftpRoots == {<<"/tftpboot">>, <<"/tftpboot", "/">>, <<"/tftpboot", "/", "/">>}

Confs ==
    {[CONF EXCEPT !.dhcp.dhcp_provider = p, !.pxe.ip_version = v,
                  !.pxe.tftp_server = s, !.my_ipv6 = m, !.pxe.tftp_root = r] :
        p \in {"neutron", "none"}, v \in {4, 6},
        s \in {"192.0.2.1", "fd00::2"}, m \in {"None", "fd00::1"}, r \in TftpRoots}

DhcpOptionsForInstance(conf, boot_mode, ipxe_enabled, url_boot, ip_version) ==
    LET task == Task("n1", boot_mode, DEPLOYING, NoAnswer, "ok")
    IN  /\ call = NoCall
        /\ call' = [fn |-> "dhcp_options_for_instance", conf |-> conf, task |-> task,
                    ipxe_enabled |-> ipxe_enabled, url_boot |-> url_boot,
                    ip_version |-> ip_version,
                    result |-> dhcp_options_for_instance(conf, task, ipxe_enabled,
                                                         url_boot, ip_version)]
        /\ UNCHANGED <<fs, dhcp_provider, last, nops, cache, bmc, nodes>>

NextDhcpOptions ==
    \E conf \in Confs, boot_mode \in {"bios", "uefi"}, ipxe_enabled \in BOOLEAN,
       url_boot \in BOOLEAN, ip_version \in {0, 4, 6} :
        DhcpOptionsForInstance(conf, boot_mode, ipxe_enabled, url_boot, ip_version)

SpecDhcpOptions == Init /\ [][NextDhcpOptions]_vars

\* _get_pxe_mac_path and _get_pxe_grub_mac_path called once with a MAC
\* string, written character by character in lower or upper case hex digits.
HexDigits == {"0", "a", "A"}

MacOf(digits) ==
    [i \in 1..(3 * MacOctets - 1) |-> IF i % 3 = 0 THEN ":" ELSE digits[i - (i \div 3)]]

Macs == {MacOf(digits) : digits \in [1..(2 * MacOctets) -> HexDigits]}

GetPxeMacPath(mac, client_id, ipxe_enabled) ==
    /\ call = NoCall
    /\ call' = [fn |-> "_get_pxe_mac_path", mac |-> mac, client_id |-> client_id,
                ipxe_enabled |-> ipxe_enabled,
                result |-> _get_pxe_mac_path(mac, "-", client_id, ipxe_enabled)]
    /\ UNCHANGED <<fs, dhcp_provider, last, nops, cache, bmc, nodes>>

GetPxeGrubMacPath(mac, ipxe_enabled) ==
    /\ call = NoCall
    /\ call' = [fn |-> "_get_pxe_grub_mac_path", mac |-> mac,
                ipxe_enabled |-> ipxe_enabled,
                result |-> _get_pxe_grub_mac_path(mac, ipxe_enabled)]
    /\ UNCHANGED <<fs, dhcp_provider, last, nops, cache, bmc, nodes>>

NextMacPath ==
    \/ \E mac \in Macs, client_id \in BOOLEAN, ipxe_enabled \in BOOLEAN :
          GetPxeMacPath(mac, client_id, ipxe_enabled)
    \/ \E mac \in Macs, ipxe_enabled \in BOOLEAN : GetPxeGrubMacPath(mac, ipxe_enabled)

SpecMacPath == Init /\ [][NextMacPath]_vars

\* the management interface of one FX700 node: boot device set and read
SetBootDevice(device, persistent, outcome) ==
    /\ nops < MaxOps
    /\ LET r == set_boot_device(bmc, device, persistent, outcome)
       IN  /\ bmc' = r.bmc
           /\ call' = [fn |-> "set_boot_device", device |-> device,
                       persistent |-> persistent, outcome |-> outcome,
                       raised |-> r.raised, warnings |-> r.warnings, sent |-> r.sent]
    /\ nops' = nops + 1
    /\ UNCHANGED <<fs, dhcp_provider, last, cache, nodes>>

GetBootDevice(outcome) ==
    /\ nops < MaxOps
    /\ LET r == get_boot_device(bmc, outcome)
       IN  call' = [fn |-> "get_boot_device", outcome |-> outcome, raised |-> r.raised,
                    warnings |-> r.warnings, sent |-> r.sent, response |-> r.response]
    /\ nops' = nops + 1
    /\ UNCHANGED <<fs, dhcp_provider, last, cache, bmc, nodes>>

NextManagement ==
    \/ \E device \in BootDevices, persistent \in BOOLEAN, outcome \in SendOutcomes :
          SetBootDevice(device, persistent, outcome)
    \/ \E outcome \in SendOutcomes : GetBootDevice(outcome)

SpecManagement == Init /\ [][NextManagement]_vars

\* the same interface on a BMC whose boot device is any value it can hold,
\* one of the three of FX_OEM_BOOTDEV_HEXA_MAP or another one
BmcOutputs == {"0x00", "0x02", "0x80", "0x01", "0xFF"}

InitBootDevice ==
    /\ fs = [dirs  |-> [q \in {tftp_root, http_root} |-> "operator"],
             files |-> <<>>,
             links |-> <<>>]
    /\ dhcp_provider \in DhcpProviders
    /\ last = [args |-> NoArgs, raised |-> "none", calls |-> <<>>, pushes |-> <<>>,
               repeat |-> FALSE,
               retry |-> FALSE,
               had_config |-> FALSE]
    /\ nops = 0
    /\ cache = InitCache
    /\ call = NoCall
    /\ bmc \in BmcOutputs
    /\ nodes = InitNodes

SpecBootDevice == InitBootDevice /\ [][NextManagement]_vars

\* _get_pxe_ip_address_path called with any string, and the handlers that
\* call it with what get_ip_addresses answered: addresses, and strings that
\* are no address.
IpStrings == {"10.0.0.5", "10.0.0.256", "lease"}

IpAnswers ==
    {[kind |-> "list", ips |-> <<ip>>] : ip \in IpStrings}
    \cup {[kind |-> "list", ips |-> <<"10.0.0.5", "10.0.0.256">>]}

\* the function has no raise statement: it answers a path for every string
GetPxeIpAddressPath(ip_address) ==
    /\ call = NoCall
    /\ call' = [fn |-> "_get_pxe_ip_address_path", ip_address |-> ip_address,
                raised |-> "none", result |-> _get_pxe_ip_address_path(ip_address)]
    /\ UNCHANGED <<fs, dhcp_provider, last, nops, cache, bmc, nodes>>

NextIpPath ==
    \/ \E ip_address \in IpStrings : GetPxeIpAddressPath(ip_address)
    \/ /\ nops < MaxFaultOps
       /\ \/ \E uuid \in Nodes, ipxe_enabled \in BOOLEAN, boot_mode \in BootModes,
                dhcp \in IpAnswers :
                CreatePxeConfig(uuid, ipxe_enabled, boot_mode, dhcp,
                                "deploy+instance+extra options", -1, NoFault)
          \/ \E uuid \in Nodes, ipxe_enabled \in BOOLEAN, boot_mode \in BootModes,
                dhcp \in IpAnswers :
                CleanUpPxeConfig(uuid, ipxe_enabled, boot_mode, dhcp, -1, NoFault)

SpecIpPath == InitInterleave /\ [][NextIpPath]_vars

\* ----------------------------------- concurrent cache_ramdisk_kernel runs
\* cache_ramdisk_kernel of one node, step by step: the node directory, then
\* for every image of pxe_info the lock of its identity, the download of the
\* master copy when there is none, the hard link into the node directory and
\* the release of the lock.
NodeRoot(ipxe_enabled) == IF ipxe_enabled THEN get_ipxe_root_dir ELSE get_root_dir

CacheStart(uuid, ipxe_enabled) ==
    /\ cache.fetch[uuid].phase = "idle"
    /\ fs' = ensure_tree(Start(fs, -1, NoFault),
                         os_path_join(NodeRoot(ipxe_enabled), <<uuid>>)).fs
    /\ cache' = [cache EXCEPT !.fetch[uuid] =
                     [phase |-> "acquire",
                      todo |-> get_kernel_ramdisk_info(uuid, ipxe_enabled)]]
    /\ UNCHANGED <<dhcp_provider, last, nops, call, bmc, nodes>>

\* variant: the fetch does not wait for the lock of the identity
FetchAcquire_unlocked(uuid) ==
    LET href == Head(cache.fetch[uuid].todo).href
    IN  /\ cache.fetch[uuid].phase = "acquire"
        /\ cache' = [cache EXCEPT
                        !.lock[href] = uuid,
                        !.fetch[uuid].phase = IF href \in cache.master THEN "link"
                                              ELSE "download"]
        /\ UNCHANGED <<fs, dhcp_provider, last, nops, call, bmc, nodes>>

\* the lock of the identity is free: take it and look for the master copy
FetchAcquire(uuid) ==
    LET href == Head(cache.fetch[uuid].todo).href
    IN  /\ cache.fetch[uuid].phase = "acquire"
        /\ cache.lock[href] = "free"
        /\ cache' = [cache EXCEPT
                        !.lock[href] = uuid,
                        !.fetch[uuid].phase = IF href \in cache.master THEN "link"
                                              ELSE "download"]
        /\ UNCHANGED <<fs, dhcp_provider, last, nops, call, bmc, nodes>>

\* the download ends: the master copy is there, or ImageDownloadFailed
FetchDownload(uuid, ok) ==
    LET href == Head(cache.fetch[uuid].todo).href
    IN  /\ cache.fetch[uuid].phase = "download"
        /\ cache' = IF ok
                    THEN [cache EXCEPT !.master = @ \cup {href},
                                       !.downloads[href] = @ + 1,
                                       !.fetch[uuid].phase = "link"]
                    ELSE [cache EXCEPT !.lock[href] = "free",
                                       !.fetch[uuid].phase = "failed"]
        /\ UNCHANGED <<fs, dhcp_provider, last, nops, call, bmc, nodes>>

\* hard link from the master copy to the node's path, then unlock
FetchLink(uuid) ==
    LET image == Head(cache.fetch[uuid].todo)
        rest == Tail(cache.fetch[uuid].todo)
    IN  /\ cache.fetch[uuid].phase = "link"
        /\ fs' = [fs EXCEPT !.files = Put(@, image.path, <<"image", image.href>>)]
        /\ cache' = [cache EXCEPT
                        !.lock[image.href] = "free",
                        !.fetch[uuid] = [phase |-> IF rest = <<>> THEN "done" ELSE "acquire",
                                         todo |-> rest]]
        /\ UNCHANGED <<dhcp_provider, last, nops, call, bmc, nodes>>

NextFetch ==
    \/ \E uuid \in Nodes, ipxe_enabled \in BOOLEAN : CacheStart(uuid, ipxe_enabled)
    \/ \E uuid \in Nodes : FetchAcquire(uuid)
    \/ \E uuid \in Nodes, ok \in BOOLEAN : FetchDownload(uuid, ok)
    \/ \E uuid \in Nodes : FetchLink(uuid)

SpecFetch == Init /\ [][NextFetch]_vars

\* ------------------------------------ image cache shared by two nodes
\* cache_ramdisk_kernel and clean_up_pxe_env of two nodes, one whole handler
\* after the other; at a sweep any of the master copies may be due.
NextCache ==
    \/ \E uuid \in Nodes, ipxe_enabled \in BOOLEAN :
          CacheRamdiskKernel(uuid, ipxe_enabled, -1, NoFault)
    \/ \E uuid \in Nodes, ipxe_enabled \in BOOLEAN, stale \in SUBSET Hrefs :
          CleanUpPxeEnv(uuid, ipxe_enabled, "bios", NoAnswer, stale, -1, NoFault)

SpecCache == InitInterleave /\ [][NextCache]_vars

\* ================================================================ claims
Range(seq) == {seq[i] : i \in 1..Len(seq)}

ConfigPaths(uuid) == {get_pxe_config_file_path(uuid, b) : b \in BOOLEAN}

AllMacAliasPaths(uuid) == MacAliasPaths(uuid, TRUE) \cup MacAliasPaths(uuid, FALSE)

NodeDir(uuid, ipxe_enabled) ==
    os_path_join(IF ipxe_enabled THEN http_root ELSE tftp_root, <<uuid>>)

\* where the link at p leads in filesystem f
Dest(f, p) == LinkDestination(p, f.links[p])

\* the alias paths a successful create_pxe_config run with these arguments
\* publishes
Published(args) ==
    MacAliasPaths(args.uuid, args.ipxe_enabled)
    \cup (IF args.boot_mode = "uefi" /\ ~args.ipxe_enabled /\ args.dhcp.kind = "list"
          THEN {_get_pxe_ip_address_path(ip) : ip \in Range(args.dhcp.ips)}
          ELSE {})

IsStep == nops' = nops + 1

\* C1: in every reachable filesystem state every alias that is present (legacy
\* MAC alias, grub MAC alias, IP alias) resolves to an existing canonical
\* config file <root>/<node-uuid>/config of the node it belongs to; none is
\* dangling.
C1_AliasesResolve ==
    /\ \A uuid \in Nodes :
          \A p \in AllMacAliasPaths(uuid) \cap DOMAIN fs.links :
             Dest(fs, p) \in ConfigPaths(uuid) \cap DOMAIN fs.files
    /\ \A p \in IpAliasPaths \cap DOMAIN fs.links :
          \E uuid \in Nodes : Dest(fs, p) \in ConfigPaths(uuid) \cap DOMAIN fs.files

\* C2: when a successful create_pxe_config is followed, for the same node, by
\* a successful create_pxe_config or clean_up_pxe_config under another boot
\* mode / ipxe_enabled combination, no alias published under the previous
\* combination (and not published again by the new call) is left on disk.
C2_NoStaleAliases ==
    [][ ( /\ IsStep
          /\ last.args.op = "create_pxe_config" /\ last.raised = "none"
          /\ last'.args.op \in {"create_pxe_config", "clean_up_pxe_config"}
          /\ last'.raised = "none"
          /\ last'.args.uuid = last.args.uuid
          /\ \/ last'.args.boot_mode # last.args.boot_mode
             \/ last'.args.ipxe_enabled # last.args.ipxe_enabled )
        => \A p \in Published(last.args) \
                    (IF last'.args.op = "create_pxe_config"
                     THEN Published(last'.args) ELSE {}) :
              p \notin DOMAIN fs'.links ]_vars

\* C3: a completed clean_up_pxe_env leaves no MAC alias and no IP alias of the
\* node, no <root>/<node-uuid> directory, none of the image files of
\* images_info, and has called the image cache's clean_up last.
C3_CleanUpEnvRemovesAll ==
    (last.args.op = "clean_up_pxe_env" /\ last.raised = "none")
    => LET uuid == last.args.uuid
           ipxe_enabled == last.args.ipxe_enabled
           images_info == get_kernel_ramdisk_info(uuid, ipxe_enabled)
       IN  /\ MacAliasPaths(uuid, ipxe_enabled) \cap DOMAIN fs.links = {}
           /\ \A p \in IpAliasPaths \cap DOMAIN fs.links :
                 Dest(fs, p) \notin ConfigPaths(uuid)
           /\ ~os_path_isdir(fs, NodeDir(uuid, ipxe_enabled))
           /\ \A i \in 1..Len(images_info) : ~Exists(fs, images_info[i].path)
           /\ last.calls # <<>>
           /\ last.calls[Len(last.calls)] = "TFTPImageCache.clean_up"

\* C4: clean_up_pxe_config / clean_up_pxe_env return without raising, in every
\* boot mode, with or without iPXE and whatever get_ip_addresses answers, and
\* change the filesystem only by removing files of the node (its directory,
\* its MAC aliases, IP aliases).
C4_CleanUpNeverRaises ==
    [][ (IsStep /\ last'.args.op \in {"clean_up_pxe_config", "clean_up_pxe_env"})
        => LET uuid == last'.args.uuid
               mine(p) == \/ p \in AllMacAliasPaths(uuid) \cup IpAliasPaths
                          \/ IsPrefix(NodeDir(uuid, TRUE), p)
                          \/ IsPrefix(NodeDir(uuid, FALSE), p)
           IN  /\ last'.raised = "none"
               /\ \A p \in DOMAIN fs'.dirs : p \in DOMAIN fs.dirs /\ fs'.dirs[p] = fs.dirs[p]
               /\ \A p \in DOMAIN fs'.files : p \in DOMAIN fs.files /\ fs'.files[p] = fs.files[p]
               /\ \A p \in DOMAIN fs'.links : p \in DOMAIN fs.links /\ fs'.links[p] = fs.links[p]
               /\ \A p \in (DOMAIN fs.dirs \ DOMAIN fs'.dirs)
                           \cup (DOMAIN fs.files \ DOMAIN fs'.files)
                           \cup (DOMAIN fs.links \ DOMAIN fs'.links) : mine(p) ]_vars

\* C5: a create_pxe_config call that repeats the previous, successful
\* create_pxe_config call with identical inputs does not raise, leaves the
\* canonical config with the same content, and leaves the same aliases.
C5_CreateIdempotent ==
    [][ ( /\ IsStep
          /\ last.args.op = "create_pxe_config" /\ last.raised = "none"
          /\ last'.args = last.args )
        => LET cfg == get_pxe_config_file_path(last.args.uuid, last.args.ipxe_enabled)
           IN  /\ last'.raised = "none"
               /\ cfg \in DOMAIN fs.files /\ cfg \in DOMAIN fs'.files
               /\ fs'.files[cfg] = fs.files[cfg]
               /\ fs'.links = fs.links ]_vars

C5_Witness ==
    /\ last.repeat
    /\ last.args.op = "create_pxe_config"
    /\ last.raised = "none"
    /\ last.args.boot_mode = "uefi" /\ ~last.args.ipxe_enabled
    /\ last.args.dhcp.ips # <<>>
    /\ Published(last.args) \subseteq DOMAIN fs.links

\* C6: prepare_instance_pxe_config calls create_pxe_config (renders the
\* template) only if no canonical config file existed on entry; a config that
\* existed is not rendered again, it is only edited by switch_pxe_config.
C6_PrepareRendersOnlyIfAbsent ==
    [][ (IsStep /\ last'.args.op = "prepare_instance_pxe_config")
        => LET cfg == get_pxe_config_file_path(last'.args.uuid, last'.args.ipxe_enabled)
               calls == Range(last'.calls)
           IN  /\ "create_pxe_config" \in calls => ~os_path_isfile(fs, cfg)
               /\ "render_template" \in calls => ~os_path_isfile(fs, cfg)
               /\ os_path_isfile(fs, cfg) =>
                     /\ cfg \in DOMAIN fs'.files
                     /\ fs'.files[cfg] =
                           IF last'.raised = "none"
                           THEN switched_text(fs.files[cfg], "None", FALSE, FALSE,
                                              FALSE, FALSE)
                           ELSE fs.files[cfg] ]_vars

C6_Witness ==
    /\ last.args.op = "prepare_instance_pxe_config"
    /\ last.had_config
    /\ last.raised = "none"
    /\ "switch_pxe_config" \in Range(last.calls)

\* C7: build_service_pxe_config edits an existing canonical config in place
\* and does not regenerate it; it regenerates (with the service options) only
\* when the file is absent and the provision state is ACTIVE, UNRESCUING or
\* DEPLOYING; switch_pxe_config runs after any regeneration, and last.
C7_ServiceEditsInPlace ==
    [][ (IsStep /\ last'.args.op = "build_service_pxe_config")
        => LET cfg == get_pxe_config_file_path(last'.args.uuid, last'.args.ipxe_enabled)
               calls == last'.calls
               regen == "create_pxe_config" \in Range(calls)
           IN  /\ os_path_isfile(fs, cfg) =>
                     /\ ~regen /\ "render_template" \notin Range(calls)
                     /\ cfg \in DOMAIN fs'.files
                     /\ fs'.files[cfg] = switched_text(fs.files[cfg], "root-uuid", FALSE,
                                                       FALSE, FALSE, FALSE)
               /\ regen => /\ ~os_path_isfile(fs, cfg)
                           /\ last'.args.extra \in {ACTIVE, UNRESCUING, DEPLOYING}
               /\ (regen /\ last'.raised = "none") =>
                     fs'.files[cfg][2] = build_pxe_config_options(<<>>, TRUE,
                                                                  last'.args.ipxe_enabled)
               /\ \A i, j \in 1..Len(calls) :
                     (calls[i] = "switch_pxe_config"
                      /\ calls[j] \in {"create_pxe_config", "render_template"}) => j < i
               /\ last'.raised = "none" =>
                     calls # <<>> /\ calls[Len(calls)] = "switch_pxe_config" ]_vars

C7_Witness ==
    /\ last.args.op = "build_service_pxe_config"
    /\ last.had_config
    /\ last.raised = "none"
    /\ last.calls = <<"switch_pxe_config">>

\* C8: when create_pxe_config / prepare_instance_pxe_config was killed between
\* two filesystem steps and is invoked again with the same inputs, the second
\* run completes without error with the canonical config present and every
\* MAC alias (and, for UEFI without iPXE, every IP alias) published.
C8_RetryAfterCrashCompletes ==
    (last.retry /\ last.args.dhcp.kind # "raise")
    => LET cfg == get_pxe_config_file_path(last.args.uuid, last.args.ipxe_enabled)
       IN  /\ last.raised = "none"
           /\ cfg \in DOMAIN fs.files
           /\ \A p \in Published(last.args) :
                 p \in DOMAIN fs.links /\ Dest(fs, p) = cfg

NoIpObtained(dhcp) == dhcp.kind \in {"raise", "None"} \/ (dhcp.kind = "list" /\ dhcp.ips = <<>>)

\* C9 (as claimed): in UEFI non-iPXE mode, when no IP address can be obtained,
\* create_pxe_config succeeds if dhcp_provider is "none" and fails for any
\* other provider.
C9_NoAddressOutcomeByProvider ==
    ( /\ last.args.op = "create_pxe_config"
      /\ last.args.boot_mode = "uefi" /\ ~last.args.ipxe_enabled
      /\ NoIpObtained(last.args.dhcp) )
    => IF dhcp_provider = "none"
       THEN /\ last.raised = "none"
            /\ get_pxe_config_file_path(last.args.uuid, FALSE) \in DOMAIN fs.files
            /\ MacAliasPaths(last.args.uuid, FALSE) \subseteq DOMAIN fs.links
       ELSE last.raised # "none"

\* C9 (amended): in UEFI non-iPXE mode, when get_ip_addresses raises
\* FailedToGetIPAddressOnPort the outcome depends only on dhcp_provider ("none":
\* the call succeeds; any other: the exception propagates); when it returns no
\* addresses (empty list or None) the call succeeds whatever the provider. In
\* all these cases the canonical config and the MAC aliases are written and no
\* IP alias is created or removed.
C9_NoAddressOutcome ==
    [][ ( /\ IsStep
          /\ last'.args.op = "create_pxe_config"
          /\ last'.args.boot_mode = "uefi" /\ ~last'.args.ipxe_enabled
          /\ NoIpObtained(last'.args.dhcp) )
        => LET cfg == get_pxe_config_file_path(last'.args.uuid, FALSE)
           IN  /\ last'.raised =
                     IF last'.args.dhcp.kind = "raise" /\ dhcp_provider # "none"
                     THEN "FailedToGetIPAddressOnPort" ELSE "none"
               /\ cfg \in DOMAIN fs'.files
               /\ \A p \in MacAliasPaths(last'.args.uuid, FALSE) :
                     p \in DOMAIN fs'.links /\ Dest(fs', p) = cfg
               /\ \A p \in IpAliasPaths :
                     /\ (p \in DOMAIN fs'.links) = (p \in DOMAIN fs.links)
                     /\ p \in DOMAIN fs.links => fs'.links[p] = fs.links[p] ]_vars

C9_Witness ==
    /\ last.args.op = "create_pxe_config"
    /\ last.args.boot_mode = "uefi" /\ ~last.args.ipxe_enabled
    /\ last.args.dhcp.kind = "raise"
    /\ dhcp_provider = "neutron"
    /\ last.raised = "FailedToGetIPAddressOnPort"
    /\ MacAliasPaths(last.args.uuid, FALSE) \subseteq DOMAIN fs.links

Dashed(mac) == [i \in 1..Len(mac) |-> IF mac[i] = ":" THEN "-" ELSE mac[i]]

\* <root>/<pxe-config-subdir>/<hw-prefix><mac with '-'>: the prefix is 01- for
\* an Ethernet port and 20- for an InfiniBand port, and there is none under iPXE
LegacyAlias(port, ipxe_enabled) ==
    IF ipxe_enabled
    THEN << <<"httpboot">>, <<"pxelinux.cfg">>, Dashed(port.address) >>
    ELSE << <<"tftpboot">>, <<"pxelinux.cfg">>,
            <<IF port.client_id THEN "20-" ELSE "01-">> \o Dashed(port.address) >>

\* <root>/<mac>.conf
GrubAlias(port, ipxe_enabled) ==
    << <<IF ipxe_enabled THEN "httpboot" ELSE "tftpboot">>, port.address \o <<".conf">> >>

\* <root>/<node-uuid>/config
CanonicalConfig(uuid, ipxe_enabled) ==
    << <<IF ipxe_enabled THEN "httpboot" ELSE "tftpboot">>, <<uuid>>, <<"config">> >>

\* C12: after a successful create_pxe_config, for every port of the node and
\* whatever the boot mode and ipxe_enabled, the legacy MAC alias
\* <root>/<pxe-config-subdir>/<hw-prefix><mac with '-'> and the grub MAC alias
\* <root>/<mac>.conf both exist and link to the <node-uuid>/config of the node,
\* which exists.
C12_MacAliasesPublished ==
    last.args.op = "create_pxe_config" /\ last.raised = "none"
    => LET uuid == last.args.uuid
           ipxe_enabled == last.args.ipxe_enabled
           config == CanonicalConfig(uuid, ipxe_enabled)
       IN  /\ config \in DOMAIN fs.files
           /\ \A port \in Range(PortsOf(uuid)) :
                 \A alias \in {LegacyAlias(port, ipxe_enabled), GrubAlias(port, ipxe_enabled)} :
                    /\ alias \in DOMAIN fs.links
                    /\ Dest(fs, alias) = config

\* create_pxe_config has published the aliases of an InfiniBand port without
\* iPXE and, in another run, of an Ethernet port under iPXE
C12_Witness ==
    /\ last.args.op = "create_pxe_config"
    /\ last.raised = "none"
    /\ last.args.uuid = "n2"
    /\ ~last.args.ipxe_enabled
    /\ << <<"tftpboot">>, <<"pxelinux.cfg">>, <<"20-", "aa", "-", "02">> >> \in DOMAIN fs.links
    /\ << <<"httpboot">>, <<"pxelinux.cfg">>, <<"aa", "-", "01">> >> \in DOMAIN fs.links
    /\ << <<"httpboot">>, <<"aa", ":", "01", ".conf">> >> \in DOMAIN fs.links

\* every address some node may hold a lease for
AllLeases == IpAddrs \cup UNION {Range(LeasesOf(uuid)) : uuid \in Nodes}

\* <tftp-root>/<ip>.conf
IpAlias(ip) == << <<"tftpboot">>, <<ip, ".conf">> >>

\* the IP aliases on disk and where each leads
IpLinks(f) == [p \in {IpAlias(ip) : ip \in AllLeases} \cap DOMAIN f.links |-> Dest(f, p)]

\* C13: a create_pxe_config run asks the DHCP service for addresses if and
\* only if the boot mode is uefi and ipxe_enabled is false; in that case, when
\* it returns normally, <tftp-root>/<ip>.conf links to <node-uuid>/config for
\* every address of the answer and no other IP alias changes; in every other
\* mode combination the IP aliases on disk are exactly those of before.
C13_IpAliasesOnlyUefiGrub ==
    [][IsStep /\ last'.args.op = "create_pxe_config"
       => LET a == last'.args
              grub == a.boot_mode = "uefi" /\ ~a.ipxe_enabled
              answered == IF grub /\ a.dhcp.kind = "list" THEN Range(a.dhcp.ips) ELSE {}
              config == CanonicalConfig(a.uuid, a.ipxe_enabled)
          IN  /\ ("get_ip_addresses" \in Range(last'.calls)) = grub
              /\ IpLinks(fs') =
                    [p \in DOMAIN IpLinks(fs) \cup {IpAlias(ip) : ip \in answered} |->
                        IF p \in {IpAlias(ip) : ip \in answered} THEN config
                        ELSE IpLinks(fs)[p]]]_vars

\* create_pxe_config in UEFI mode without iPXE has published one alias for
\* each of the two addresses the DHCP service answered
C13_Witness ==
    /\ last.args.op = "create_pxe_config"
    /\ last.raised = "none"
    /\ last.args.boot_mode = "uefi" /\ ~last.args.ipxe_enabled
    /\ last.args.dhcp.ips = <<"10.0.0.5", "10.0.0.7">>
    /\ {IpAlias("10.0.0.5"), IpAlias("10.0.0.7")} \subseteq DOMAIN fs.links
    /\ "get_ip_addresses" \in Range(last.calls)

\* what belongs to a node on filesystem f: its directories with what is in
\* them (the canonical configs), its MAC aliases and its IP aliases
Own(f, uuid) ==
    LET dirs == {<< <<root>>, <<uuid>> >> : root \in {"tftpboot", "httpboot"}}
        under(p) == \E d \in dirs : IsPrefix(d, p)
        aliases == UNION {{LegacyAlias(port, b), GrubAlias(port, b)}
                          : port \in Range(PortsOf(uuid)), b \in BOOLEAN}
                   \cup {IpAlias(ip) : ip \in Range(LeasesOf(uuid))}
    IN  [dirs  |-> [p \in {q \in DOMAIN f.dirs : under(q)} |-> f.dirs[p]],
         files |-> [p \in {q \in DOMAIN f.files : under(q)} |-> f.files[p]],
         links |-> [p \in aliases \cap DOMAIN f.links |-> f.links[p]]]

Fetching(uuid, href, phases) ==
    /\ cache.fetch[uuid].phase \in phases
    /\ Head(cache.fetch[uuid].todo).href = href

NodeLinks(uuid, href) ==
    {q \in DOMAIN fs.files : fs.files[q] = <<"image", href>> /\ \E i \in 1..Len(q) : q[i] = <<uuid>>}

\* C15: while two nodes run cache_ramdisk_kernel for the same image
\* identities, at most one node downloads an identity at any time and an
\* identity is downloaded at most once; a node that is past the lock of an
\* identity holds it, so the other node waits at the lock; and when both
\* nodes are done every identity was downloaded exactly once, its master
\* copy is there and each node has its own link to it.
C15_SingleDownload ==
    /\ \A h \in Hrefs :
          /\ Cardinality({u \in Nodes : Fetching(u, h, {"download"})}) <= 1
          /\ cache.downloads[h] <= 1
          /\ \A u \in Nodes : Fetching(u, h, {"download", "link"}) => cache.lock[h] = u
          /\ \A u \in Nodes : Fetching(u, h, {"link"}) => h \in cache.master
    /\ (\A u \in Nodes : cache.fetch[u].phase = "done")
          => \A h \in Hrefs :
                /\ cache.downloads[h] = 1
                /\ h \in cache.master
                /\ \A u \in Nodes : Cardinality(NodeLinks(u, h)) = 1

\* n1 downloads the ramdisk while n2 waits at its lock, after both linked
\* the kernel that was downloaded once
C15_Witness ==
    /\ Fetching("n1", "deploy_ramdisk_href", {"download"})
    /\ Fetching("n2", "deploy_ramdisk_href", {"acquire"})
    /\ cache.lock["deploy_ramdisk_href"] = "n1"
    /\ cache.downloads["deploy_kernel_href"] = 1
    /\ \A u \in Nodes : NodeLinks(u, "deploy_kernel_href") # {}

\* ---------------------------------------------------------------- C16
\* C16: no step removes a master copy that is still linked from a node
\* directory after the step, whichever master copies the sweep of
\* clean_up_pxe_env finds due by age or size.
C16_LinkedMasterKept ==
    [][\A h \in cache.master : LinkCount(fs', h) > 0 => h \in cache'.master]_vars

\* n1 and n2 share both images; n1 was cleaned up with both master copies
\* due, its links are gone, n2's links and the master copies are still there
C16_Witness ==
    /\ last.args.op = "clean_up_pxe_env"
    /\ last.args.uuid = "n1"
    /\ last.args.extra = Hrefs
    /\ last.raised = "none"
    /\ cache.master = Hrefs
    /\ \A h \in Hrefs : NodeLinks("n1", h) = {} /\ NodeLinks("n2", h) # {}

\* ---------------------------------------------------------------- C17
UseIpVersion(c) == IF c.ip_version # 0 THEN c.ip_version ELSE c.conf.pxe.ip_version

OptNames(dhcp_opts) == {dhcp_opts[i].opt_name : i \in 1..Len(dhcp_opts)}

\* C17: for IP version 6, given or configured, dhcp_options_for_instance
\* answers the same for url_boot false and true; every boot-file option is
\* named by option 59, the value for clients that are not iPXE is a
\* tftp:// URL, and no TFTP server or path-prefix option is given.
C17_V6ForcesUrlBoot ==
    (call.fn = "dhcp_options_for_instance" /\ UseIpVersion(call) = 6) =>
        /\ call.result = dhcp_options_for_instance(call.conf, call.task, call.ipxe_enabled,
                                                   ~call.url_boot, call.ip_version)
        /\ \A n \in OptNames(call.result) : n[Len(n)] = DHCPV6_BOOTFILE_NAME
        /\ call.result[1].opt_value[1] = "tftp://"
        /\ \A i \in 1..Len(call.result) : call.result[i].ip_version = 6

\* version 6 from the configuration, url_boot false, PXE without iPXE
C17_Witness ==
    /\ call.fn = "dhcp_options_for_instance"
    /\ call.ip_version = 0
    /\ call.conf.pxe.ip_version = 6
    /\ ~call.url_boot
    /\ ~call.ipxe_enabled
    /\ call.result = << [opt_name |-> <<"59">>,
                         opt_value |-> <<"tftp://", "192.0.2.1", "/", "pxelinux.0">>,
                         ip_version |-> 6] >>

\* ---------------------------------------------------------------- C18
\* the characters a token stands for, and the string a name is
Spell(t) ==
    CASE t = "01-" -> <<"0", "1", "-">>
      [] t = "20-" -> <<"2", "0", "-">>
      [] t = ".conf" -> <<".", "c", "o", "n", "f">>
      [] OTHER -> <<t>>

RECURSIVE Chars(_)
Chars(name) == IF name = <<>> THEN <<>> ELSE Spell(Head(name)) \o Chars(Tail(name))

PathString(path) == [i \in 1..Len(path) |-> Chars(path[i])]

\* canonical colon-hex form: lower-case hex digits
CanonicalMacs == {m \in Macs : str_lower(m) = m}

\* the MAC read back from a path: the file name without the three
\* characters of the hardware type (PXE) or without ".conf" (grub)
MacFromLegacyPath(path, ipxe_enabled) ==
    LET name == Chars(path[Len(path)])
    IN  str_replace(IF ipxe_enabled THEN name ELSE SubSeq(name, 4, Len(name)), "-", ":")

MacFromGrubPath(path) ==
    LET name == Chars(path[Len(path)])
    IN  SubSeq(name, 1, Len(name) - 5)

\* C18: for a MAC in canonical colon-hex form, no other canonical MAC has
\* the same legacy path under the same ipxe and client-id setting, nor the
\* same grub path under the same ipxe setting, and the MAC is read back from
\* either path.
C18_MacPathsInjective ==
    /\ (call.fn = "_get_pxe_mac_path" /\ call.mac \in CanonicalMacs) =>
          /\ \A m \in CanonicalMacs \ {call.mac} :
                PathString(_get_pxe_mac_path(m, "-", call.client_id, call.ipxe_enabled))
                    # PathString(call.result)
          /\ MacFromLegacyPath(call.result, call.ipxe_enabled) = call.mac
    /\ (call.fn = "_get_pxe_grub_mac_path" /\ call.mac \in CanonicalMacs) =>
          /\ \A m \in CanonicalMacs \ {call.mac} :
                PathString(_get_pxe_grub_mac_path(m, call.ipxe_enabled))
                    # PathString(call.result)
          /\ MacFromGrubPath(call.result) = call.mac

\* the legacy path of the InfiniBand port a0:0a for PXE
C18_Witness ==
    /\ call.fn = "_get_pxe_mac_path"
    /\ call.mac = <<"a", "0", ":", "0", "a">>
    /\ call.client_id
    /\ ~call.ipxe_enabled
    /\ Chars(call.result[Len(call.result)]) = <<"2", "0", "-", "a", "0", "-", "0", "a">>

\* ---------------------------------------------------------------- C19
\* the strings that parse neither as an IPv4 nor as an IPv6 address
MalformedAddrs == {"10.0.0.256", "lease"}

\* C19: _get_pxe_ip_address_path fails with an invalid-address error for a
\* string that is no IP address, and no <tftp-root>/<ip>.conf alias exists
\* for such a string answered by the DHCP service.
C19_MalformedAddressRejected ==
    /\ (call.fn = "_get_pxe_ip_address_path" /\ call.ip_address \in MalformedAddrs)
          => call.raised = "InvalidIPv4Address"
    /\ \A ip \in MalformedAddrs : IpAlias(ip) \notin DOMAIN fs.links

\* ---------------------------------------------------------------- C20
\* C20: set_boot_device for disk, pxe or bios hands ipmitool exactly one raw
\* command, '0x34 0x2E' followed by 0x00 for disk, 0x02 for pxe, 0x80 for
\* bios, and logs a warning if and only if persistent is false; for any
\* other device it raises InvalidParameterValue and hands over no command.
C20_SetBootDeviceCommand ==
    call.fn = "set_boot_device" =>
        IF call.device \in {"disk", "pxe", "bios"}
        THEN /\ call.sent = << <<"0x34", " ", "0x2E", " ",
                                 CASE call.device = "disk" -> "0x00"
                                   [] call.device = "pxe" -> "0x02"
                                   [] call.device = "bios" -> "0x80">> >>
             /\ (call.warnings # <<>>) = ~call.persistent
             /\ call.raised \in {"none", "IPMIFailure"}
             /\ call.raised = "none" => bmc = call.sent[1][5]
        ELSE /\ call.raised = "InvalidParameterValue"
             /\ call.sent = <<>>
             /\ call.warnings = <<>>

\* bios set without persistence, as the second call, and taken by the BMC
C20_Witness ==
    /\ call.fn = "set_boot_device"
    /\ call.device = "bios"
    /\ ~call.persistent
    /\ call.raised = "none"
    /\ call.sent = << <<"0x34", " ", "0x2E", " ", "0x80">> >>
    /\ Len(call.warnings) = 1
    /\ bmc = "0x80"
    /\ nops = 2

\* ---------------------------------------------------------------- C21
\* C21: get_boot_device hands ipmitool the raw command '0x34 0x4F'; when
\* ipmitool fails it raises IPMIFailure and answers nothing; otherwise it
\* answers persistent True and the boot device disk, pxe or bios for the BMC
\* output 0x00, 0x02 or 0x80 without a warning, and the boot device None
\* with a warning and no exception for any other output.
C21_GetBootDeviceAnswer ==
    call.fn = "get_boot_device" =>
        /\ call.sent = << <<"0x34", " ", "0x4F">> >>
        /\ IF call.outcome = "IPMIFailure"
           THEN call.raised = "IPMIFailure" /\ call.response = "none"
           ELSE /\ call.raised = "none"
                /\ call.response.persistent = TRUE
                /\ call.response.boot_device =
                      CASE bmc = "0x00" -> "disk"
                        [] bmc = "0x02" -> "pxe"
                        [] bmc = "0x80" -> "bios"
                        [] OTHER -> "None"
                /\ (call.warnings # <<>>) = (bmc \notin {"0x00", "0x02", "0x80"})

\* the BMC holds 0xFF: boot device None, one warning, no exception
C21_Witness ==
    /\ call.fn = "get_boot_device"
    /\ bmc = "0xFF"
    /\ call.raised = "none"
    /\ call.response = [boot_device |-> "None", persistent |-> TRUE]
    /\ Len(call.warnings) = 1

\* ---------------------------------------------------------------- C22
\* place of a sub-step in the lifecycle
LifecycleRank(name) ==
    CASE name = "update_dhcp" -> 1
      [] name = "create_pxe_config" -> 2
      [] name = "render_template" -> 3
      [] name = "get_ip_addresses" -> 4
      [] name = "switch_pxe_config" -> 5
      [] OTHER -> 0

\* the alias paths whose link is not what it was before the step
AliasesTouched(f, g, args) ==
    {p \in Published(args) :
        (p \in DOMAIN f.links) # (p \in DOMAIN g.links)
        \/ (p \in DOMAIN f.links /\ p \in DOMAIN g.links /\ f.links[p] # g.links[p])}

\* C22: in every run of prepare_instance_pxe_config, complete or killed at
\* any filesystem step, the sub-steps follow the lifecycle order with
\* update_dhcp first and switch_pxe_config last; the filesystem changes only
\* after the DHCP service accepted the options; an alias is touched only
\* when the canonical config is on disk; the switch follows the publication
\* of every alias of a created config; and a refused DHCP push leaves the
\* filesystem as it was.
C22_LifecycleOrder ==
    [][ (IsStep /\ last'.args.op = "prepare_instance_pxe_config")
        => LET a == last'.args
               calls == last'.calls
               cfg == get_pxe_config_file_path(a.uuid, a.ipxe_enabled)
           IN  /\ calls # <<>> /\ calls[1] = "update_dhcp"
               /\ \A i, j \in 1..Len(calls) :
                     i < j => LifecycleRank(calls[i]) < LifecycleRank(calls[j])
               /\ fs' # fs => (Len(last'.pushes) = 1 /\ last'.pushes[1].accepted)
               /\ (cfg \in DOMAIN fs'.files /\ cfg \notin DOMAIN fs.files)
                     => "render_template" \in Range(calls)
               /\ AliasesTouched(fs, fs', a) # {}
                     => (cfg \in DOMAIN fs'.files /\ "render_template" \in Range(calls))
               /\ "switch_pxe_config" \in Range(calls)
                     => /\ calls[Len(calls)] = "switch_pxe_config"
                        /\ cfg \in DOMAIN fs'.files
                        /\ "create_pxe_config" \in Range(calls)
                              => Published(a) \subseteq DOMAIN fs'.links
               /\ last'.raised = "FailedToUpdateDHCPOptOnPort"
                     => (fs' = fs /\ calls = <<"update_dhcp">>) ]_vars

\* a complete run on a node without config, in UEFI mode without iPXE
C22_Witness ==
    /\ last.args.op = "prepare_instance_pxe_config"
    /\ last.raised = "none"
    /\ ~last.had_config
    /\ last.calls = <<"update_dhcp", "create_pxe_config", "render_template",
                      "get_ip_addresses", "switch_pxe_config">>
    /\ last.args.dhcp.ips # <<>>
    /\ Published(last.args) \subseteq DOMAIN fs.links

\* ---------------------------------------------------------------- C23
UrlBootInEffect(c) == c.url_boot \/ UseIpVersion(c) = 6

\* the values of the options of a list that carry the name
ValuesOf(dhcp_opts, name) ==
    [i \in {j \in 1..Len(dhcp_opts) : dhcp_opts[j].opt_name = name} |-> dhcp_opts[i].opt_value]

\* C23: when URL-boot is not in effect, with or without iPXE, the options
\* '66', '150' and 'server-ip-address' are each given once, with the
\* configured TFTP server as value; when URL-boot is in effect (url_boot
\* true or IP version 6) none of the three is given.
C23_TftpServerOptions ==
    call.fn = "dhcp_options_for_instance" =>
        \A name \in {<<"66">>, <<"150">>, <<"server-ip-address">>} :
            LET values == ValuesOf(call.result, name)
            IN  IF UrlBootInEffect(call)
                THEN DOMAIN values = {}
                ELSE /\ Cardinality(DOMAIN values) = 1
                     /\ \A i \in DOMAIN values : values[i] = <<call.conf.pxe.tftp_server>>

\* iPXE with IP version 4 and url_boot false: the three options follow the
\* two boot-file options
C23_Witness ==
    /\ call.fn = "dhcp_options_for_instance"
    /\ call.ipxe_enabled
    /\ ~UrlBootInEffect(call)
    /\ Len(call.result) = 5
    /\ call.result[3] = [opt_name |-> <<"66">>, opt_value |-> <<"192.0.2.1">>,
                          ip_version |-> 4]
    /\ call.result[4].opt_name = <<"150">>
    /\ call.result[5].opt_name = <<"server-ip-address">>

\* ---------------------------------------------------------------- C24
EndsWithSlash(s) == s # <<>> /\ s[Len(s)] = "/"

RECURSIVE WithoutTrailingSlashes(_)
WithoutTrailingSlashes(s) ==
    IF EndsWithSlash(s) THEN WithoutTrailingSlashes(SubSeq(s, 1, Len(s) - 1)) ELSE s

PathPrefixGiven(c) == ~c.ipxe_enabled /\ ~UrlBootInEffect(c)

\* C24 (as claimed): the option '210' is given if and only if iPXE is not
\* enabled and URL-boot is not in effect, and its value is the TFTP root
\* with exactly one trailing slash.
C24_PathPrefixOneSlash ==
    call.fn = "dhcp_options_for_instance" =>
        LET values == ValuesOf(call.result, <<"210">>)
        IN  /\ (DOMAIN values # {}) = PathPrefixGiven(call)
            /\ \A i \in DOMAIN values :
                  values[i] = WithoutTrailingSlashes(call.conf.pxe.tftp_root) \o <<"/">>

\* C24 (amended): the option '210' is given, once, if and only if iPXE is
\* not enabled and URL-boot is not in effect; its value is the TFTP root as
\* configured when that ends with a slash, and the root followed by one
\* slash when it does not.
C24_PathPrefixEndsWithSlash ==
    call.fn = "dhcp_options_for_instance" =>
        LET values == ValuesOf(call.result, <<"210">>)
            root == call.conf.pxe.tftp_root
        IN  /\ Cardinality(DOMAIN values) = (IF PathPrefixGiven(call) THEN 1 ELSE 0)
            /\ \A i \in DOMAIN values :
                  values[i] = IF EndsWithSlash(root) THEN root ELSE root \o <<"/">>

\* PXE with IP version 4, the root configured without trailing slash
C24_Witness ==
    /\ call.fn = "dhcp_options_for_instance"
    /\ PathPrefixGiven(call)
    /\ call.conf.pxe.tftp_root = <<"/tftpboot">>
    /\ call.result[2] = [opt_name |-> <<"210">>, opt_value |-> <<"/tftpboot", "/">>,
                          ip_version |-> 4]

\* ---------------------------------------------------------------- C25
\* the options of a list whose name ends with the boot-file option number
BootFileOptions(dhcp_opts, number) ==
    {i \in 1..Len(dhcp_opts) :
        dhcp_opts[i].opt_name[Len(dhcp_opts[i].opt_name)] = number}

\* C25: in iPXE mode exactly two boot-file options are given. With provider
\* neutron the first is tagged for clients that are not iPXE and carries the
\* boot file, the second is tagged for iPXE clients and carries the URL of
\* the iPXE script, the tag being ipxe for IP version 4 and ipxe6 for IP
\* version 6; with another provider the first is '!175,<boot-file option>'
\* with the boot file and the second the bare boot-file option with the URL
\* of the iPXE script.
C25_IpxeBootFileOptions ==
    (call.fn = "dhcp_options_for_instance" /\ call.ipxe_enabled) =>
        LET r == call.result
            v == UseIpVersion(call)
            number == IF v = 4 THEN "67" ELSE "59"
            not_tagged == IF v = 4 THEN "tag:!ipxe," ELSE "tag:!ipxe6,"
            tagged == IF v = 4 THEN "tag:ipxe," ELSE "tag:ipxe6,"
            boot_file == _dhcp_option_file_or_url(call.conf, call.task,
                                                  UrlBootInEffect(call), v)
            script == <<call.conf.deploy.http_url, "/", "boot.ipxe">>
        IN  /\ BootFileOptions(r, number) = {1, 2}
            /\ r[1].opt_value = boot_file
            /\ r[2].opt_value = script
            /\ IF call.conf.dhcp.dhcp_provider = "neutron"
               THEN /\ r[1].opt_name = <<not_tagged, number>>
                    /\ r[2].opt_name = <<tagged, number>>
               ELSE /\ r[1].opt_name = <<"!", "175", ",", number>>
                    /\ r[2].opt_name = <<number>>

\* neutron, iPXE, IP version 6
C25_Witness ==
    /\ call.fn = "dhcp_options_for_instance"
    /\ call.ipxe_enabled
    /\ call.conf.dhcp.dhcp_provider = "neutron"
    /\ call.ip_version = 6
    /\ call.result[1].opt_name = <<"tag:!ipxe6,", "59">>
    /\ call.result[2].opt_name = <<"tag:ipxe6,", "59">>
    /\ call.result[2].opt_value = <<"http://192.0.2.1:8080", "/", "boot.ipxe">>

\* ------------------------------------------------ the node record (C27)
\* the node records a task can hold: kernel and ramdisk known or not, whole
\* disk image or not, netboot or local boot
NodeRecords(uuid) ==
    { NodeRecord(uuid, k, r, w, b) : k \in {"None", "kernel_0"}, r \in {"None", "ramdisk_0"},
                                     w \in BOOLEAN, b \in {"netboot", "local"} }

GetInstanceImageInfo(uuid, ipxe_enabled, glance) ==
    /\ nops < MaxFaultOps
    /\ LET r == get_instance_image_info(nodes[uuid], ipxe_enabled, glance)
       IN  /\ nodes' = [nodes EXCEPT ![uuid] = r.node]
           /\ call' = [fn |-> "get_instance_image_info", uuid |-> uuid,
                       ipxe_enabled |-> ipxe_enabled, glance |-> glance,
                       before |-> nodes[uuid], raised |-> r.raised,
                       image_info |-> r.image_info, at |-> nops + 1]
    /\ nops' = nops + 1
    /\ UNCHANGED <<fs, dhcp_provider, last, cache, bmc>>

InitNodeRecord ==
    /\ fs = [dirs  |-> [q \in {tftp_root, http_root} |-> "operator"],
             files |-> <<>>,
             links |-> <<>>]
    /\ dhcp_provider = "neutron"
    /\ last = [args |-> NoArgs, raised |-> "none", calls |-> <<>>, pushes |-> <<>>,
               repeat |-> FALSE,
               retry |-> FALSE,
               had_config |-> FALSE]
    /\ nops = 0
    /\ cache = InitCache
    /\ call = NoCall
    /\ bmc = "0x00"
    /\ nodes \in { [InitNodes EXCEPT ![r.uuid] = r] :
                      r \in UNION { NodeRecords(uuid) : uuid \in Deployed } }

\* every operation of the engine on one node, and the management calls
NextNodeRecord ==
    \/ \E uuid \in Deployed, ipxe_enabled \in BOOLEAN, glance \in GlanceAnswers :
          GetInstanceImageInfo(uuid, ipxe_enabled, glance)
    \/ \E uuid \in Deployed, ipxe_enabled \in BOOLEAN :
          \E dhcp \in AnswersFor("bios", ipxe_enabled) :
             /\ nops < MaxFaultOps
             /\ \/ CreatePxeConfig(uuid, ipxe_enabled, "bios", dhcp,
                                   "deploy+instance+extra options", -1, NoFault)
                \/ PrepareInstancePxeConfig(uuid, ipxe_enabled, "bios", dhcp, "ok", -1,
                                            NoFault)
                \/ BuildServicePxeConfig(uuid, ipxe_enabled, "bios", dhcp, DEPLOYING, -1,
                                         NoFault)
                \/ CleanUpPxeConfig(uuid, ipxe_enabled, "bios", dhcp, -1, NoFault)
                \/ CleanUpPxeEnv(uuid, ipxe_enabled, "bios", dhcp, {}, -1, NoFault)
    \/ \E uuid \in Deployed, ipxe_enabled \in BOOLEAN :
          /\ nops < MaxFaultOps
          /\ CacheRamdiskKernel(uuid, ipxe_enabled, -1, NoFault)
    \/ \E device \in BootDevices, outcome \in SendOutcomes :
          /\ nops < MaxFaultOps
          /\ \/ SetBootDevice(device, FALSE, outcome)
             \/ GetBootDevice(outcome)

SpecNodeRecord == InitNodeRecord /\ [][NextNodeRecord]_vars

\* the step is a call of get_instance_image_info
ImageInfoCall ==
    /\ call'.fn = "get_instance_image_info"
    /\ nops' = nops + 1
    /\ call'.at = nops'
    /\ call'.before = nodes[call'.uuid]

\* the step is a call of get_instance_image_info on a node that is neither a
\* whole disk image nor local boot and lacks the kernel or the ramdisk id
WritingCall ==
    /\ ImageInfoCall
    /\ LET before == call'.before
       IN  /\ ~before.is_whole_disk_image
           /\ before.boot_option # "local"
           /\ (before.instance_info.kernel = "None"
                  \/ before.instance_info.ramdisk = "None")

\* the two node records differ in nothing but the kernel and the ramdisk of
\* instance_info (in memory and as saved) and the count of saves
OnlyImageIds(a, b) ==
    /\ [a.instance_info EXCEPT !.kernel = "None", !.ramdisk = "None"]
         = [b.instance_info EXCEPT !.kernel = "None", !.ramdisk = "None"]
    /\ [a.saved EXCEPT !.kernel = "None", !.ramdisk = "None"]
         = [b.saved EXCEPT !.kernel = "None", !.ramdisk = "None"]
    /\ a.uuid = b.uuid
    /\ a.is_whole_disk_image = b.is_whole_disk_image
    /\ a.boot_option = b.boot_option

\* C27: over all operations of the engine a node record changes only in a
\* call of get_instance_image_info on a node that is neither a whole disk
\* image nor local boot and lacks a kernel or ramdisk id; the change is to
\* the kernel and ramdisk of instance_info only, node.save is called in such a
\* call only and stores what the node holds, and for a whole-disk or
\* local-boot node the result is the empty dict with the node untouched
C27_NodeWrittenOnlyByImageInfo ==
    [][ /\ (nodes' # nodes) => WritingCall
        /\ \A uuid \in Nodes :
              /\ OnlyImageIds(nodes[uuid], nodes'[uuid])
              /\ nodes'[uuid].saves # nodes[uuid].saves
                    => /\ WritingCall
                       /\ call'.uuid = uuid
                       /\ nodes'[uuid].saves = nodes[uuid].saves + 1
                       /\ nodes'[uuid].saved = nodes'[uuid].instance_info
        /\ (ImageInfoCall
              /\ (call'.before.is_whole_disk_image \/ call'.before.boot_option = "local"))
             => (call'.image_info = <<>> /\ call'.raised = "none" /\ nodes' = nodes)
      ]_vars

\* C27 witness: the identifiers of a netboot node that held only a kernel id
\* were looked up, written to instance_info and saved
C27_Witness ==
    /\ call.fn = "get_instance_image_info"
    /\ call.raised = "none"
    /\ call.before.instance_info.kernel = "kernel_0"
    /\ call.before.instance_info.ramdisk = "None"
    /\ nodes[call.uuid].instance_info.kernel = "kernel_id"
    /\ nodes[call.uuid].instance_info.ramdisk = "ramdisk_id"
    /\ nodes[call.uuid].saves = 1
    /\ nodes[call.uuid].saved = nodes[call.uuid].instance_info

\* ------------------------------------- directories of the operator (C28)
\* the directories _ensure_config_dirs_exist looks for, for the deployed nodes
ConfigDirs ==
    UNION { { os_path_join(root_dir, <<uuid>>), os_path_join(root_dir, PXE_CFG_DIR_NAME) } :
            root_dir \in {get_root_dir, get_ipxe_root_dir}, uuid \in Deployed }

\* a handler may be killed after its first filesystem step, that is between
\* ensure_tree and os.chmod of a directory it creates
DirKillPoints == {-1, 1}

\* the operator made some of the directories before the conductor started
InitDirs ==
    /\ \E made \in SUBSET ConfigDirs :
          fs = [dirs  |-> [q \in {tftp_root, http_root} \cup made |-> "operator"],
                files |-> <<>>,
                links |-> <<>>]
    /\ dhcp_provider = "neutron"
    /\ last = [args |-> NoArgs, raised |-> "none", calls |-> <<>>, pushes |-> <<>>,
               repeat |-> FALSE,
               retry |-> FALSE,
               had_config |-> FALSE]
    /\ nops = 0
    /\ cache = InitCache
    /\ call = NoCall
    /\ bmc = "0x00"
    /\ nodes = InitNodes

NextDirs ==
    \/ \E uuid \in Deployed, ipxe_enabled \in BOOLEAN, boot_mode \in BootModes,
          left \in DirKillPoints :
          \E dhcp \in AnswersFor(boot_mode, ipxe_enabled) :
             CreatePxeConfig(uuid, ipxe_enabled, boot_mode, dhcp,
                             "deploy+instance+extra options", left, NoFault)
    \/ \E uuid \in Deployed, ipxe_enabled \in BOOLEAN, boot_mode \in BootModes :
          \E dhcp \in AnswersFor(boot_mode, ipxe_enabled) :
             PrepareInstancePxeConfig(uuid, ipxe_enabled, boot_mode, dhcp, "ok", -1,
                                      NoFault)
    \/ \E uuid \in Deployed, ipxe_enabled \in BOOLEAN, boot_mode \in BootModes :
          \E dhcp \in AnswersFor(boot_mode, ipxe_enabled) :
             CleanUpPxeConfig(uuid, ipxe_enabled, boot_mode, dhcp, -1, NoFault)

SpecDirs == InitDirs /\ [][NextDirs]_vars

\* the two directories a call with these arguments looks for
DirsOf(args) ==
    LET root_dir == IF args.ipxe_enabled THEN get_ipxe_root_dir ELSE get_root_dir
    IN  { os_path_join(root_dir, <<args.uuid>>), os_path_join(root_dir, PXE_CFG_DIR_NAME) }

CreatesConfig(op) ==
    op \in {"create_pxe_config", "prepare_instance_pxe_config", "build_service_pxe_config"}

\* C28: over any sequence of create and clean-up calls, a directory that is
\* there before and after a call keeps its permission; a call that creates
\* the config leaves every directory that existed in place, creates no
\* directory but the node directory and the PXE config subdirectory of its
\* root, gives the configured permission to the ones it created, and, when
\* it was not killed, leaves both in existence
C28_EnsureDirsOnlyAbsent ==
    [][ IsStep =>
          /\ \A d \in DOMAIN fs.dirs \cap DOMAIN fs'.dirs : fs'.dirs[d] = fs.dirs[d]
          /\ CreatesConfig(last'.args.op) =>
                /\ DOMAIN fs.dirs \subseteq DOMAIN fs'.dirs
                /\ DOMAIN fs'.dirs \ DOMAIN fs.dirs \subseteq DirsOf(last'.args)
                /\ last'.raised # "crash" =>
                      /\ DirsOf(last'.args) \subseteq DOMAIN fs'.dirs
                      /\ \A d \in DOMAIN fs'.dirs \ DOMAIN fs.dirs :
                            fs'.dirs[d] = dir_permission
      ]_vars

\* C28 witness: create_pxe_config ran where the operator had made the PXE
\* config subdirectory and not the node directory: the first kept the
\* operator's permission, the second was created with the configured one
C28_Witness ==
    /\ last.args.op = "create_pxe_config"
    /\ last.raised = "none"
    /\ ~last.args.ipxe_enabled
    /\ nops = 1
    /\ fs.dirs[os_path_join(get_root_dir, PXE_CFG_DIR_NAME)] = "operator"
    /\ fs.dirs[os_path_join(get_root_dir, <<last.args.uuid>>)] = dir_permission

\* ------------------------------------------- placeholder form (C26)
\* the ROOT and DISK_IDENTIFIER values in the config of the last call
RenderedPlaceholders ==
    LET text == fs.files[get_pxe_config_file_path(last.args.uuid, last.args.ipxe_enabled)]
    IN  <<text[3], text[4]>>

\* C26: the config a create_pxe_config call rendered carries the parenthesis
\* form of the ROOT and DISK_IDENTIFIER placeholders exactly when the boot
\* mode is uefi and ipxe_enabled is false, and the brace form in the other
\* three combinations
C26_PlaceholderForm ==
    (last.args.op = "create_pxe_config" /\ last.raised # "crash") =>
        /\ get_pxe_config_file_path(last.args.uuid, last.args.ipxe_enabled)
             \in DOMAIN fs.files
        /\ "render_template" \in Range(last.calls)
        /\ RenderedPlaceholders =
             IF last.args.boot_mode = "uefi" /\ ~last.args.ipxe_enabled
             THEN <<"(( ROOT ))", "(( DISK_IDENTIFIER ))">>
             ELSE <<"{{ ROOT }}", "{{ DISK_IDENTIFIER }}">>

\* C26 witness: create_pxe_config rendered the config of a UEFI node
\* without iPXE with the parenthesis form
C26_Witness ==
    /\ last.args.op = "create_pxe_config"
    /\ last.raised = "none"
    /\ last.args.boot_mode = "uefi"
    /\ ~last.args.ipxe_enabled
    /\ get_pxe_config_file_path(last.args.uuid, FALSE) \in DOMAIN fs.files
    /\ RenderedPlaceholders = <<"(( ROOT ))", "(( DISK_IDENTIFIER ))">>

\* --------------------------------- after a failed address lookup (C29)
\* the outcome is a create_pxe_config the address lookup made fail
FailedLookup(l) ==
    l.args.op = "create_pxe_config" /\ l.raised = "FailedToGetIPAddressOnPort"

\* the config of the call and every MAC alias of its node are on disk in f
ConfigAndMacAliases(f, args) ==
    LET config == get_pxe_config_file_path(args.uuid, args.ipxe_enabled)
    IN  /\ config \in DOMAIN f.files
        /\ \A p \in MacAliasPaths(args.uuid, args.ipxe_enabled) :
              p \in DOMAIN f.links /\ Dest(f, p) = config

\* C29: when create_pxe_config fails on FailedToGetIPAddressOnPort (the DHCP
\* provider is not 'none'), the config and every MAC alias of the node are on
\* disk after the failure and no IP alias was made; a
\* prepare_instance_pxe_config that follows for the same node and root finds
\* the config, does not call create_pxe_config or get_ip_addresses, leaves
\* the IP aliases as they are and switches the config
C29_FailedLookupNotRolledBack ==
    [][ IsStep =>
          /\ FailedLookup(last') =>
                /\ dhcp_provider # "none"
                /\ ConfigAndMacAliases(fs', last'.args)
                /\ IpLinks(fs') = IpLinks(fs)
          /\ ( /\ FailedLookup(last)
               /\ last'.args.op = "prepare_instance_pxe_config"
               /\ last'.args.uuid = last.args.uuid
               /\ last'.args.ipxe_enabled = last.args.ipxe_enabled ) =>
                /\ last'.had_config
                /\ "create_pxe_config" \notin Range(last'.calls)
                /\ "get_ip_addresses" \notin Range(last'.calls)
                /\ "switch_pxe_config" \in Range(last'.calls)
                /\ last'.raised = "none"
                /\ IpLinks(fs') = IpLinks(fs)
                /\ ConfigAndMacAliases(fs', last.args)
      ]_vars

\* C29 witness: create_pxe_config of a UEFI node without iPXE failed on the
\* address lookup and left the config and the MAC aliases on disk
C29_Witness ==
    /\ FailedLookup(last)
    /\ last.args.boot_mode = "uefi"
    /\ ~last.args.ipxe_enabled
    /\ dhcp_provider = "neutron"
    /\ ConfigAndMacAliases(fs, last.args)
    /\ IpLinks(fs) = <<>>

\* ------------------------------ aliases and an existing config (C30)
\* C30: a prepare_instance_pxe_config call changes the alias links on disk
\* only when no config existed on entry, in which case it also renders the
\* config; with the config present it calls neither create_pxe_config nor
\* get_ip_addresses and every link on disk stays as it was, so an address
\* leased since the config was written gets no alias
C30_AliasesOnlyWithRender ==
    [][ (IsStep /\ last'.args.op = "prepare_instance_pxe_config") =>
          /\ fs'.links # fs.links =>
                /\ ~last'.had_config
                /\ "render_template" \in Range(last'.calls)
          /\ last'.had_config =>
                /\ fs'.links = fs.links
                /\ "create_pxe_config" \notin Range(last'.calls)
                /\ "get_ip_addresses" \notin Range(last'.calls)
      ]_vars

\* C30 witness: prepare_instance_pxe_config ran to the end for a UEFI node
\* without iPXE whose config existed, while the DHCP service had a lease
\* for it that has no alias on disk
C30_Witness ==
    /\ last.args.op = "prepare_instance_pxe_config"
    /\ last.had_config
    /\ last.raised = "none"
    /\ last.args.boot_mode = "uefi"
    /\ ~last.args.ipxe_enabled
    /\ last.args.dhcp = [kind |-> "list", ips |-> <<"10.0.0.5">>]
    /\ IpAlias("10.0.0.5") \notin DOMAIN fs.links
    /\ ConfigAndMacAliases(fs, last.args)

====
